---- MODULE Spec2Model ----
(***************************************************************************)
(* A model of UniversalRedisManager (Backend/app.js): the session          *)
(* lifecycle (handleConnect / handleDisconnect and the handlers that pass  *)
(* validateConnection), the key enumeration of handleGetAll, the database  *)
(* handlers, the metrics history, the background sampler of                *)
(* startMonitoring, the system alerts, the latency test, the alert rules   *)
(* and the health report.                                                  *)
(*                                                                         *)
(* Every handler is an async function: each `await` is a point where the   *)
(* event loop may run another handler's continuation, so a handler is      *)
(* modelled as one action per stretch of code between two awaits.  The     *)
(* redis client library is the environment: a handle is connecting, ready  *)
(* or closed, disconnect() closes a live handle at once and rejects on a   *)
(* handle that is not open, and a command on a closed handle rejects.      *)
(***************************************************************************)
EXTENDS Integers, Sequences, FiniteSets, TLC

\* ------------------------------------------------------------------ bounds
\* client objects redis.createClient may create in one run
MaxHandles == 3
\* scan calls / fetch batches / probes of a request in the session model
MaxScanCalls == 2
MaxBatches == 1
MaxProbes == 2

\* ------------------------------------------------------- program constants
\* this.client = null
NoHandle == 0
\* for (let i = 0; i < 16; i++)
NumDatabases == 16

Handles == 1..MaxHandles
ConnReqs == {"c1", "c2"}
OpReqs == {"o1"}

VARIABLES
    handles,             \* handle -> "unused" | "connecting" | "ready" | "closed"
    nextHandle,          \* the next client object createClient returns
    client,              \* this.client
    monitoringInterval,  \* this.monitoringInterval is set
    connectionConfig,    \* this.connectionConfig: <<>> (null) or <<cfg>>
    currentDatabase,     \* this.currentDatabase
    conn,                \* the handleConnect requests in flight
    disc,                \* the handleDisconnect request in flight
    op,                  \* the validateConnection-gated requests in flight
    response             \* the response the last step sent: who answered, and what

sessionVars == <<handles, nextHandle, client, monitoringInterval,
                 connectionConfig, currentDatabase, conn, disc, op, response>>

VARIABLES
    store,               \* the store's keyspace: key -> the string it holds, or Null
    getAll,              \* the handleGetAll request in flight, and its last answer
    setReq,              \* the handleSet request in flight
    performanceHistory,  \* this.performanceHistory
    systemAlerts,        \* this.systemAlerts
    monitoring,          \* the handleRealtimeMonitoring request in flight
    nSamples,            \* how many samples handleRealtimeMonitoring has taken
    now,                 \* Date.now(), in ms since the manager was constructed
    realtimeStats,       \* this.realtimeStats
    ticks,               \* the sampler callbacks suspended at `await info('stats')`
    processed            \* handle -> total_commands_processed of the store behind it

scanVars == <<store, getAll, setReq>>

VARIABLES
    alertsStorage,       \* this.alertsStorage: the user-defined alert rules
    latencyTest,         \* the handleLatencyTest request in flight, and how the last one ended
    adminReply,          \* the last answer of a monitoring or alert-rule handler
    delReq,              \* the handleDelete requests: in flight, and their last answers
    resolver             \* a parseConnectionConfig call: its argument and what it returned

adminVars == <<alertsStorage, latencyTest, adminReply, delReq, resolver>>

monitorVars == <<performanceHistory, systemAlerts, monitoring, nSamples, adminVars>>

samplerVars == <<realtimeStats, ticks, processed>>

VARIABLES
    selected,            \* the database selected on the session's connection
    dbKeys,              \* the databases that hold a key
    tour,                \* the DatabasesInfo / FlushDatabase / FlushAllDatabases request in flight
    switchReq,           \* the handleSwitchDatabase request in flight, and its last body
    dbSet,               \* the handleSet request in flight, and where its set was served
    failures,            \* how many verbs of the database handlers the store has failed
    inFlight             \* the requests awaiting a reply of the connection, oldest first

dbVars == <<selected, dbKeys, tour, switchReq, dbSet, failures, inFlight>>

dataVars == <<scanVars, monitorVars, samplerVars, now, dbVars>>

vars == <<sessionVars, dataVars>>

\* res.json / res.status(..).json: the handler `kind` of request `who` answers
Respond(who, kind, result) ==
    response' = [who |-> who, kind |-> kind, result |-> result]

NoResponse == [who |-> "none", kind |-> "none", result |-> "none"]

\* a step that sends no response
Silent == response' = NoResponse

\* ------------------------------------------------------- the client library
Live(hs, h) == hs[h] \in {"connecting", "ready"}

\* client.disconnect(): closes an open socket at once; rejects (ClientClosedError)
\* on a client that is not open.
DisconnectOutcome(hs, h) == IF Live(hs, h) THEN "ok" ELSE "err"

AfterDisconnect(hs, h) == IF Live(hs, h) THEN [hs EXCEPT ![h] = "closed"] ELSE hs

\* client.isReady
isReady(h) == handles[h] = "ready"

\* The transport of a connecting handle comes up.
ConnectionEstablished(h) ==
    /\ handles[h] = "connecting"
    /\ handles' = [handles EXCEPT ![h] = "ready"]
    /\ Silent
    /\ UNCHANGED <<nextHandle, client, monitoringInterval, connectionConfig,
                   currentDatabase, conn, disc, op>>
    /\ UNCHANGED dataVars

\* The transport of a connecting handle fails for good: connect() rejects.
ConnectionFailed(h) ==
    /\ handles[h] = "connecting"
    /\ handles' = [handles EXCEPT ![h] = "closed"]
    /\ Silent
    /\ UNCHANGED <<nextHandle, client, monitoringInterval, connectionConfig,
                   currentDatabase, conn, disc, op>>
    /\ UNCHANGED dataVars

\* ---------------------------------------------------- parseConnectionConfig
\* undefined, and the empty object literal {}
Undefined == "<undefined>"
EmptyObject == "{}"

\* parseInt(x) || 6379
defaultPort == 6379
\* the Railway/Cloud settings of the socket
connectTimeout == 10000
family == 4

\* the numbers the texts of a request spell: database indexes and a port
MaxDatabaseIndex == 15
OtherPort == 6380
Numbers == (0..MaxDatabaseIndex) \cup {OtherPort}

\* NaN is the empty sequence, a number n the sequence <<n>>
NaN == <<>>

\* parseInt of a text: the number it spells, NaN for any other text
ParseInt(text) ==
    IF \E n \in Numbers : ToString(n) = text
    THEN <<CHOOSE n \in Numbers : ToString(n) = text>>
    ELSE NaN

\* x || ... for a number or undefined: 0, NaN and undefined are falsy
Truthy(x) == x # <<>> /\ x[1] # 0

\* A host name is the sequence of its labels; the empty sequence is no host.
LocalHost == <<"localhost">>
RailwayHost == <<"redis", "rlwy", "net">>

\* hostname.includes('rlwy.net'), as far as whole labels go
IncludesRlwyNet(hostname) ==
    \E i \in 1..(Len(hostname) - 1) : hostname[i] = "rlwy" /\ hostname[i + 1] = "net"

\* What new URL(connectionString) makes of a connection string that parses:
\* protocol is the scheme and a colon, pathname is "/" and the path segment.
\* The connection strings of the model are given by their parts.
Schemes == {"redis", "rediss", "http"}
PathSegments == {"", "db"} \cup {ToString(n) : n \in 0..MaxDatabaseIndex}

Urls ==
    [kind : {"url"}, scheme : Schemes, hostname : {LocalHost, RailwayHost},
     port : {"", ToString(OtherPort)}, segment : PathSegments,
     username : {"", "u"}, password : {"", "pw"}]

\* no connection string, a string of blanks, a string new URL rejects
NoString == [kind |-> "undefined"]
ConnectionStrings == {NoString, [kind |-> "blank"], [kind |-> "invalid"]} \cup Urls

\* req.body of a connect request; database is a number or undefined
ConnectionData ==
    [connectionString : ConnectionStrings, connectionType : {"local", "railway"},
     host : {<<>>, RailwayHost}, port : {<<>>, <<OtherPort>>},
     password : {""}, database : {<<>>, <<0>>, <<5>>}]

LocalConnection ==
    [connectionString |-> NoString, connectionType |-> "local", host |-> <<>>,
     port |-> <<>>, password |-> "", database |-> <<>>]

\* a descriptor that asks for TLS whatever the scheme
Tls_Always(protocol) == EmptyObject

\* tls: url.protocol === 'rediss:' ? {} : undefined
Tls(protocol) == IF protocol = "rediss:" THEN EmptyObject ELSE Undefined

\* the Railway/Cloud settings, set on config.socket
RailwaySettings ==
    [connectTimeout |-> connectTimeout, lazyConnect |-> TRUE, keepAlive |-> TRUE,
     family |-> family]

\* the credentials of the url: the password, else a username other than
\* 'default'
Credentials(url) ==
    IF url.password # "" THEN [password |-> url.password]
    ELSE IF url.username # "" /\ url.username # "default"
    THEN [username |-> url.username]
    ELSE <<>>

\* parseConnectionConfig: what it returns, or the error it throws
parseConnectionConfig(connectionData) ==
    LET url == connectionData.connectionString
    IN  IF url.kind = "invalid"
        THEN [threw |-> TRUE, error |-> "Invalid connection string format"]
        ELSE IF url.kind = "url"
        THEN LET socket ==
                     [host |-> url.hostname,
                      port |-> IF Truthy(ParseInt(url.port))
                               THEN ParseInt(url.port)[1] ELSE defaultPort,
                      tls |-> Tls(url.scheme \o ":"),
                      rejectUnauthorized |-> FALSE]
                 database ==
                     IF Truthy(ParseInt(url.segment)) THEN ParseInt(url.segment)[1]
                     ELSE IF Truthy(connectionData.database)
                     THEN connectionData.database[1]
                     ELSE 0
                 railway == \/ connectionData.connectionType = "railway"
                            \/ IncludesRlwyNet(url.hostname)
             IN  [threw |-> FALSE,
                  config |-> Credentials(url) @@
                             [socket |-> IF railway THEN RailwaySettings @@ socket
                                         ELSE socket,
                              database |-> database]]
        ELSE [threw |-> FALSE,
              config |->
                  [socket |-> [host |-> IF connectionData.host # <<>>
                                        THEN connectionData.host ELSE LocalHost,
                               port |-> IF Truthy(connectionData.port)
                                        THEN connectionData.port[1] ELSE defaultPort],
                   password |-> IF connectionData.password # ""
                                THEN connectionData.password ELSE Undefined,
                   database |-> IF Truthy(connectionData.database)
                                THEN connectionData.database[1] ELSE 0]]

\* a call of parseConnectionConfig on the argument at hand
Resolve ==
    /\ resolver.returned = <<>>
    /\ resolver' = [resolver EXCEPT
                        !.returned = <<parseConnectionConfig(resolver.connectionData)>>]
    /\ UNCHANGED <<alertsStorage, latencyTest, adminReply, delReq>>
    /\ UNCHANGED <<performanceHistory, systemAlerts, monitoring, nSamples>>
    /\ UNCHANGED <<sessionVars, scanVars, samplerVars, now, dbVars>>

\* ------------------------------------------------------------ handleConnect
\* req.body as far as the session sees it: whether parseConnectionConfig
\* accepts it, and the database index it resolves to
ConnectBodies == [parseOk : BOOLEAN, database : {0, 1}]

ConnIdle ==
    [pc |-> "idle", body |-> [parseOk |-> TRUE, database |-> 0],
     mine |-> NoHandle, settled |-> "none", on |-> NoHandle, toreOther |-> FALSE]

\* The catch block of handleConnect, entered with handles hs, this.client cl and
\* the monitoring flag m: disconnect whatever this.client holds (errors
\* swallowed), await, and only then clear the slot.
ConnectCatch(r, rec, hs, cl, m) ==
    IF cl # NoHandle
    THEN /\ handles' = AfterDisconnect(hs, cl)
         /\ client' = cl
         /\ monitoringInterval' = m
         /\ conn' = [conn EXCEPT ![r] =
                [rec EXCEPT !.pc = "awaitCleanup", !.on = NoHandle,
                            !.settled = "none", !.body = ConnIdle.body,
                            !.toreOther = (cl # rec.mine /\ Live(hs, cl))]]
         /\ Silent
    ELSE /\ handles' = hs
         /\ client' = cl
         /\ monitoringInterval' = FALSE
         /\ conn' = [conn EXCEPT ![r] = ConnIdle]
         /\ Respond(r, "handleConnect", "error")

\* parseConnectionConfig, createClient, client.connect() up to the await of the
\* race against the 15 s timer; m is the monitoring flag at this point.
ConnectParseAndCreate(r, rec, m) ==
    IF ~rec.body.parseOk
    THEN /\ ConnectCatch(r, rec, handles, client, m)
         /\ UNCHANGED <<nextHandle, connectionConfig, currentDatabase>>
    ELSE /\ nextHandle <= MaxHandles
         /\ connectionConfig' = <<[database |-> rec.body.database]>>
         /\ client' = nextHandle
         /\ handles' = [handles EXCEPT ![nextHandle] = "connecting"]
         /\ nextHandle' = nextHandle + 1
         /\ monitoringInterval' = m
         /\ conn' = [conn EXCEPT ![r] =
                [ConnIdle EXCEPT !.pc = "awaitConnect", !.mine = nextHandle]]
         /\ Silent
         /\ UNCHANGED currentDatabase

\* Requests that will still create a client.
PreCreate == {r \in DOMAIN conn : conn[r].pc = "awaitOldDisconnect"}

ConnectStart(r, body) ==
    /\ conn[r].pc = "idle"
    /\ nextHandle + Cardinality(PreCreate) <= MaxHandles
    /\ LET rec == [ConnIdle EXCEPT !.body = body] IN
       IF client # NoHandle
       THEN /\ handles' = AfterDisconnect(handles, client)
            /\ conn' = [conn EXCEPT ![r] =
                   [rec EXCEPT !.pc = "awaitOldDisconnect",
                               !.settled = DisconnectOutcome(handles, client)]]
            /\ Silent
            /\ UNCHANGED <<nextHandle, client, monitoringInterval,
                           connectionConfig, currentDatabase>>
       ELSE ConnectParseAndCreate(r, rec, monitoringInterval)
    /\ UNCHANGED <<disc, op>>
    /\ UNCHANGED dataVars

\* after `await this.client.disconnect()` of the previous session
ConnectOldDisconnected(r) ==
    /\ conn[r].pc = "awaitOldDisconnect"
    /\ IF conn[r].settled = "err"
       THEN /\ ConnectCatch(r, conn[r], handles, client, monitoringInterval)
            /\ UNCHANGED <<nextHandle, connectionConfig, currentDatabase>>
       ELSE ConnectParseAndCreate(r, conn[r], FALSE)
    /\ UNCHANGED <<disc, op>>
    /\ UNCHANGED dataVars

\* `await this.client.ping()` is issued on whatever this.client holds now.
ConnectProbe(r) ==
    /\ IF client = NoHandle
       THEN ConnectCatch(r, conn[r], handles, client, monitoringInterval)
       ELSE /\ conn' = [conn EXCEPT ![r] =
                   [@ EXCEPT !.pc = "awaitPing", !.on = client]]
            /\ Silent
            /\ UNCHANGED <<handles, client, monitoringInterval>>
    /\ UNCHANGED <<nextHandle, connectionConfig, currentDatabase>>

\* Promise.race([connectPromise, timeoutPromise]) settles.
ConnectSettled(r) ==
    /\ conn[r].pc = "awaitConnect"
    /\ \/ /\ handles[conn[r].mine] = "ready"
          /\ ConnectProbe(r)
       \/ /\ handles[conn[r].mine] = "closed"      \* connect() rejected
          /\ ConnectCatch(r, conn[r], handles, client, monitoringInterval)
          /\ UNCHANGED <<nextHandle, connectionConfig, currentDatabase>>
       \/ /\ handles[conn[r].mine] = "connecting"  \* the 15 s timer fired
          /\ ConnectCatch(r, conn[r], handles, client, monitoringInterval)
          /\ UNCHANGED <<nextHandle, connectionConfig, currentDatabase>>
    /\ UNCHANGED <<disc, op>>
    /\ UNCHANGED dataVars

\* startMonitoring() and the success response
ConnectSucceed(r) ==
    /\ monitoringInterval' = TRUE
    /\ conn' = [conn EXCEPT ![r] = ConnIdle]
    /\ Respond(r, "handleConnect", "ok")
    /\ UNCHANGED <<handles, client>>

\* the ping settles
ConnectPinged(r) ==
    /\ conn[r].pc = "awaitPing"
    /\ \/ /\ handles[conn[r].on] = "ready"
          /\ currentDatabase' = connectionConfig[1].database
          /\ IF connectionConfig[1].database > 0
             THEN IF client = NoHandle
                  THEN ConnectCatch(r, conn[r], handles, client, monitoringInterval)
                  ELSE /\ conn' = [conn EXCEPT ![r] =
                              [@ EXCEPT !.pc = "awaitSelect", !.on = client]]
                       /\ Silent
                       /\ UNCHANGED <<handles, client, monitoringInterval>>
             ELSE ConnectSucceed(r)
       \/ /\ handles[conn[r].on] \in {"ready", "closed"}   \* the ping rejects
          /\ ConnectCatch(r, conn[r], handles, client, monitoringInterval)
          /\ UNCHANGED currentDatabase
    /\ UNCHANGED <<nextHandle, connectionConfig, disc, op>>
    /\ UNCHANGED dataVars

\* the select settles
ConnectSelected(r) ==
    /\ conn[r].pc = "awaitSelect"
    /\ \/ /\ handles[conn[r].on] = "ready"
          /\ ConnectSucceed(r)
       \/ /\ handles[conn[r].on] \in {"ready", "closed"}   \* the select rejects
          /\ ConnectCatch(r, conn[r], handles, client, monitoringInterval)
    /\ UNCHANGED <<nextHandle, connectionConfig, currentDatabase, disc, op>>
    /\ UNCHANGED dataVars

\* after the catch block's `await this.client.disconnect()`: clear the slot,
\* stopMonitoring(), answer 500
ConnectCleanedUp(r) ==
    /\ conn[r].pc = "awaitCleanup"
    /\ client' = NoHandle
    /\ monitoringInterval' = FALSE
    /\ conn' = [conn EXCEPT ![r] = ConnIdle]
    /\ Respond(r, "handleConnect", "error")
    /\ UNCHANGED <<handles, nextHandle, connectionConfig, currentDatabase, disc, op>>
    /\ UNCHANGED dataVars

\* --------------------------------------------------------- handleDisconnect
\* closedSession remembers that some Disconnect has closed a ready session
DiscIdle == [pc |-> "idle", settled |-> "none", wasReady |-> FALSE,
             closedSession |-> FALSE]

DisconnectStart ==
    /\ disc.pc = "idle"
    /\ IF client # NoHandle
       THEN /\ handles' = AfterDisconnect(handles, client)
            /\ disc' = [disc EXCEPT !.pc = "awaitDisconnect",
                                    !.settled = DisconnectOutcome(handles, client),
                                    !.wasReady = isReady(client)]
            /\ Silent
       ELSE /\ Respond("d", "handleDisconnect", "ok")
            /\ UNCHANGED <<handles, disc>>
    /\ UNCHANGED <<nextHandle, client, monitoringInterval, connectionConfig,
                   currentDatabase, conn, op>>
    /\ UNCHANGED dataVars

\* after `await this.client.disconnect()`: clear the slot and stop the sampler,
\* or, when the disconnect rejected, answer 500 and change nothing
DisconnectSettled ==
    /\ disc.pc = "awaitDisconnect"
    /\ IF disc.settled = "ok"
       THEN /\ client' = NoHandle
            /\ monitoringInterval' = FALSE
            /\ disc' = [DiscIdle EXCEPT
                            !.closedSession = disc.closedSession \/ disc.wasReady]
            /\ Respond("d", "handleDisconnect", "ok")
       ELSE /\ disc' = [DiscIdle EXCEPT !.closedSession = disc.closedSession]
            /\ Respond("d", "handleDisconnect", "error")
            /\ UNCHANGED <<client, monitoringInterval>>
    /\ UNCHANGED <<handles, nextHandle, connectionConfig, currentDatabase, conn, op>>
    /\ UNCHANGED dataVars

\* ------------------------------------- the validateConnection-gated handlers
\* In the session model a gated handler is the sequence of store verbs it
\* awaits on this.client, each with the catch block that receives its failure:
\* caught = FALSE is the handler's outer catch (answer 500), caught = TRUE an
\* inner catch after which the handler goes on, skipping the next `skip` verbs
\* of the same try block.  What the verbs do to the data is modelled by the
\* data specifications below.
V(verb) == [verb |-> verb, caught |-> FALSE, skip |-> 0]
Caught(verb, skip) == [verb |-> verb, caught |-> TRUE, skip |-> skip]

RECURSIVE Repeat(_, _)
Repeat(steps, n) == IF n = 0 THEN <<>> ELSE steps \o Repeat(steps, n - 1)

handlePing == {<<V("ping")>>}

\* database out of range (400, no verb) or select
handleSwitchDatabase == {<<>>, <<V("select")>>}

handleDatabasesInfo ==
    {Repeat(<<Caught("select", 2), Caught("dbSize", 1), Caught("info", 0)>>, NumDatabases)
        \o <<V("select")>>}

handleFlushDatabase == {<<V("select"), V("dbSize"), V("flushDb"), V("select")>>}

handleFlushAllDatabases ==
    {Repeat(<<Caught("select", 1), Caught("dbSize", 0)>>, NumDatabases)
        \o <<V("flushAll"), V("select")>>}

\* k scan calls, then m batches of gets, each get in its own try/catch
handleGetAll ==
    {Repeat(<<V("scan")>>, k) \o Repeat(<<Caught("get", 0)>>, m) :
        k \in 1..MaxScanCalls, m \in 0..MaxBatches}

\* key or value missing (400, no verb) or set
handleSet == {<<>>, <<V("set")>>}

\* exists, then 404 or del
handleDelete == {<<V("exists")>>, <<V("exists"), V("del")>>}

\* the four info requests are issued together under one Promise.all
handleRealtimeMonitoring == {<<V("info")>>}

handleLatencyTest == {Repeat(<<V("ping")>>, n) : n \in 1..MaxProbes}

\* reads this.performanceHistory only
handleSystemHealth == {<<>>}

OpKinds == {"handlePing", "handleSwitchDatabase", "handleDatabasesInfo",
            "handleFlushDatabase", "handleFlushAllDatabases", "handleGetAll",
            "handleSet", "handleDelete", "handleRealtimeMonitoring",
            "handleLatencyTest", "handleSystemHealth"}

Scripts(kind) ==
    CASE kind = "handlePing" -> handlePing
      [] kind = "handleSwitchDatabase" -> handleSwitchDatabase
      [] kind = "handleDatabasesInfo" -> handleDatabasesInfo
      [] kind = "handleFlushDatabase" -> handleFlushDatabase
      [] kind = "handleFlushAllDatabases" -> handleFlushAllDatabases
      [] kind = "handleGetAll" -> handleGetAll
      [] kind = "handleSet" -> handleSet
      [] kind = "handleDelete" -> handleDelete
      [] kind = "handleRealtimeMonitoring" -> handleRealtimeMonitoring
      [] kind = "handleLatencyTest" -> handleLatencyTest
      [] kind = "handleSystemHealth" -> handleSystemHealth

\* script: the verb awaited now, then the verbs still to do
OpIdle ==
    [pc |-> "idle", kind |-> "none", script |-> <<>>, on |-> NoHandle,
     result |-> "none"]

\* a gate that forgets `!this.client.isReady`
validateConnection_SlotOnly == client # NoHandle

validateConnection == client # NoHandle /\ isReady(client)

\* The handler runs on from a point where `script` is still to do, up to its
\* next await or its response.  `this.client.verb(...)` reads the slot now: on
\* an empty slot it throws a TypeError into the enclosing catch; otherwise the
\* verb goes to the handle the slot holds, whatever state that handle is in.
RECURSIVE OpAdvance(_, _)
OpAdvance(rec, script) ==
    IF script = <<>>
    THEN [rec EXCEPT !.pc = "done", !.result = "ok", !.script = <<>>]
    ELSE LET s == Head(script) IN
         IF client = NoHandle
         THEN IF s.caught
              THEN OpAdvance(rec, SubSeq(script, 2 + s.skip, Len(script)))
              ELSE [rec EXCEPT !.pc = "done", !.result = "TypeError",
                               !.script = <<>>]
         ELSE [rec EXCEPT !.pc = "await", !.on = client, !.script = script]

\* the request goes on as rec, or answers and leaves
OpGoesOn(o, rec) ==
    IF rec.pc = "done"
    THEN /\ op' = [op EXCEPT ![o] = OpIdle]
         /\ Respond(o, rec.kind, rec.result)
    ELSE /\ op' = [op EXCEPT ![o] = rec]
         /\ Silent

OpStart(o, kind, script) ==
    /\ op[o].pc = "idle"
    /\ IF validateConnection
       THEN OpGoesOn(o, OpAdvance([OpIdle EXCEPT !.kind = kind], script))
       ELSE /\ Respond(o, kind, "NotConnected")
            /\ UNCHANGED op
    /\ UNCHANGED <<handles, nextHandle, client, monitoringInterval,
                   connectionConfig, currentDatabase, conn, disc>>
    /\ UNCHANGED dataVars

\* the awaited verb settles: a reply, or a rejection (also of a ready store)
OpReply(o) ==
    /\ op[o].pc = "await"
    /\ LET rec == op[o]
           cur == Head(rec.script)
           rest == Tail(rec.script) IN
       \/ /\ handles[rec.on] = "ready"
          /\ OpGoesOn(o, OpAdvance(rec, rest))
       \/ /\ handles[rec.on] \in {"ready", "closed"}
          /\ OpGoesOn(o, IF cur.caught
                         THEN OpAdvance(rec, SubSeq(rest, 1 + cur.skip, Len(rest)))
                         ELSE [rec EXCEPT !.pc = "done", !.result = "error"])
    /\ UNCHANGED <<handles, nextHandle, client, monitoringInterval,
                   connectionConfig, currentDatabase, conn, disc>>
    /\ UNCHANGED dataVars

\* ------------------------------------------------ handleGetAll and handleSet
\* key names, the longest scan page, the largest ?limit= of a request
Keys == {"k1", "k2"}
MaxPageLen == 3
MaxLimit == 2

\* const maxIterations = 100
maxIterations == 100
\* const batchSize = 20
batchSize == 20

\* JavaScript null and undefined: not strings a client can send or store
Null == "<null>"

\* the values a client stores, and the keys it stores them under: a scan page
\* can name a key that is not, or no longer, in the store
Values == {"", "v"}
WrittenKeys == {"k1"}

\* a scan reply: the next cursor and a page of key names, duplicates allowed
Cursors == {"0", "17"}
Pages == UNION {[1..n -> Keys] : n \in 0..MaxPageLen}
Limits == 1..MaxLimit

SeqToSet(q) == {q[i] : i \in 1..Len(q)}

Min(a, b) == IF a < b THEN a ELSE b

\* allKeys is a Set: kept as the sequence of its members in insertion order.
\* A forEach that adds every key of the page, whatever the size of the set:
RECURSIVE AddKeys_NoLimit(_, _, _)
AddKeys_NoLimit(allKeys, keys, limit) ==
    IF keys = <<>>
    THEN allKeys
    ELSE AddKeys_NoLimit(IF Head(keys) \notin SeqToSet(allKeys)
                         THEN Append(allKeys, Head(keys))
                         ELSE allKeys,
                         Tail(keys), limit)

\* result.keys.forEach(key => { if (allKeys.size < limit) allKeys.add(key) })
RECURSIVE AddKeys(_, _, _)
AddKeys(allKeys, keys, limit) ==
    IF keys = <<>>
    THEN allKeys
    ELSE AddKeys(IF Len(allKeys) < limit /\ Head(keys) \notin SeqToSet(allKeys)
                 THEN Append(allKeys, Head(keys))
                 ELSE allKeys,
                 Tail(keys), limit)

\* a loop that goes on whatever cursor the store returned
ScanAgain_IgnoreCursor(size, limit, scanIterations, cursor) ==
    ~(size >= limit \/ scanIterations >= maxIterations)

\* if (allKeys.size >= limit || scanIterations >= maxIterations) break;
\* } while (cursor !== '0')
ScanAgain(size, limit, scanIterations, cursor) ==
    /\ ~(size >= limit \/ scanIterations >= maxIterations)
    /\ cursor # "0"

\* value || '(null)': null and the empty string are falsy
OrSentinel(value) == IF value = Null \/ value = "" THEN "(null)" ELSE value

\* `Error: ${err.message}`
GetError == "Error: rejected"

\* reads: what the store replies to the gets of the batch awaited now.
\* sawDuplicate / sawOverLimit remember that a page repeated a key, and that a
\* key was left out because the set had reached the limit; observed holds the
\* key names of all the pages the request has received, failed the keys whose
\* get was rejected; settled counts the gets of the awaited batch that have
\* settled so far.
GetAllIdle ==
    [pc |-> "idle", limit |-> 1, cursor |-> "0", allKeys |-> <<>>,
     scanIterations |-> 0, i |-> 0, reads |-> <<>>, keyValuePairs |-> <<>>,
     status |-> "none", sawDuplicate |-> FALSE, sawOverLimit |-> FALSE,
     observed |-> {}, failed |-> {}, settled |-> 0]

SetIdle == [pc |-> "idle", key |-> ""]

\* a flag that is set only when keys were left out
Limited_Strict(size, limit) == size > limit

\* limited: uniqueKeys.length >= limit
Limited(size, limit) == size >= limit

\* the body of the 200 answer of a request that ended as rec
GetAllResponse(rec) ==
    IF rec.allKeys = <<>>
    THEN [success |-> TRUE, count |-> 0, data |-> <<>>,
          scanIterations |-> rec.scanIterations]
    ELSE [success |-> TRUE, count |-> Len(rec.keyValuePairs),
          totalScanned |-> Len(rec.allKeys), data |-> rec.keyValuePairs,
          scanIterations |-> rec.scanIterations,
          limited |-> Limited(Len(rec.allKeys), rec.limit)]

\* uniqueKeys.slice(i, i + batchSize)
Batch(rec) == SubSeq(rec.allKeys, rec.i + 1, Min(rec.i + batchSize, Len(rec.allKeys)))

\* batch.map(async key => this.client.get(key)): the gets of a batch are sent
\* together.  The store serves the verbs of a connection in the order they were
\* sent, so a get reads the keyspace as it is when the get is sent; acked tells
\* whether the set that wrote the value had been answered by then.
SendBatch(rec) ==
    LET batch == Batch(rec)
    IN  [rec EXCEPT
            !.pc = "awaitGet",
            !.reads = [j \in 1..Len(batch) |->
                         [value |-> store[batch[j]],
                          acked |-> ~(setReq.pc = "awaitSet" /\ setReq.key = batch[j])]]]

\* validateConnection passes; the first scan is issued with cursor '0'
GetAllStart(limit) ==
    /\ getAll.pc = "idle"
    /\ validateConnection
    /\ getAll' = [GetAllIdle EXCEPT !.pc = "awaitScan", !.limit = limit]
    /\ UNCHANGED <<store, setReq>>
    /\ UNCHANGED <<sessionVars, monitorVars, samplerVars, now, dbVars>>

\* after the loop: answer the empty result, or issue the first batch of gets
GetAllAfterScan(rec) ==
    IF rec.allKeys = <<>>
    THEN [rec EXCEPT !.pc = "idle", !.status = "ok"]
    ELSE SendBatch([rec EXCEPT !.i = 0])

\* the awaited scan replies
ScanReply(keys, cursor) ==
    /\ getAll.pc = "awaitScan"
    /\ LET allKeys == AddKeys(getAll.allKeys, keys, getAll.limit)
           scanIterations == getAll.scanIterations + 1
           rec == [getAll EXCEPT
                       !.cursor = cursor,
                       !.allKeys = allKeys,
                       !.scanIterations = scanIterations,
                       !.observed = @ \cup SeqToSet(keys),
                       !.sawDuplicate = @ \/ Len(keys) >
                           Cardinality(SeqToSet(keys) \ SeqToSet(getAll.allKeys)),
                       !.sawOverLimit = @ \/ ~(SeqToSet(keys) \subseteq SeqToSet(allKeys))]
       IN  getAll' = IF ScanAgain(Len(allKeys), getAll.limit, scanIterations, cursor)
                     THEN rec
                     ELSE GetAllAfterScan(rec)
    /\ UNCHANGED <<store, setReq>>
    /\ UNCHANGED <<sessionVars, monitorVars, samplerVars, now, dbVars>>

\* the awaited scan rejects: the outer catch answers 500
ScanFails ==
    /\ getAll.pc = "awaitScan"
    /\ getAll' = [getAll EXCEPT !.pc = "idle", !.status = "error"]
    /\ UNCHANGED <<store, setReq>>
    /\ UNCHANGED <<sessionVars, monitorVars, samplerVars, now, dbVars>>

\* Promise.all of a batch settles: every get replied, except those in `failed`,
\* whose catch reports the error as the value; then the next batch, or the answer
GetReply(failed) ==
    /\ getAll.pc = "awaitGet"
    /\ failed \subseteq SeqToSet(Batch(getAll))
    /\ LET batch == Batch(getAll)
           values == [j \in 1..Len(batch) |->
                        [key |-> batch[j],
                         value |-> IF batch[j] \in failed
                                   THEN GetError
                                   ELSE OrSentinel(getAll.reads[j].value)]]
           rec == [getAll EXCEPT !.keyValuePairs = @ \o values,
                                 !.i = @ + batchSize,
                                 !.reads = <<>>,
                                 !.settled = 0,
                                 !.failed = @ \cup failed]
       IN  getAll' = IF rec.i < Len(rec.allKeys)
                     THEN SendBatch(rec)
                     ELSE [rec EXCEPT !.pc = "idle", !.status = "ok"]
    /\ UNCHANGED <<store, setReq>>
    /\ UNCHANGED <<sessionVars, monitorVars, samplerVars, now, dbVars>>

\* The gets of a batch one by one.  A page of n keys, and the requests that
\* make a second and a third batch happen:
MaxFetchKeys == 41
MaxFetchFailures == 1

KeyName(j) == "key" \o ToString(j)
FetchKeys == {KeyName(j) : j \in 1..MaxFetchKeys}
FetchPages == {[j \in 1..n |-> KeyName(j)] : n \in {0, 1, batchSize, batchSize + 1, MaxFetchKeys}}
FetchLimits == {batchSize, MaxFetchKeys}

\* a Promise.race in place of Promise.all: the first get to settle resumes
AllSettled_Race(n, settled) == settled >= 1

\* await Promise.all(batch.map(async key => { try {...} catch {...} })): no
\* mapped promise rejects, so the await resumes once all n gets have settled
AllSettled(n, settled) == settled = n

\* The next get of the awaited batch settles: the connection replies in the
\* order the gets were sent.  A rejected get is caught by its own try/catch.
GetSettles(ok) ==
    /\ getAll.pc = "awaitGet"
    /\ getAll.settled < Len(getAll.reads)
    /\ ok \/ Cardinality(getAll.failed) < MaxFetchFailures
    /\ getAll' = [getAll EXCEPT
                     !.settled = @ + 1,
                     !.failed = IF ok THEN @ ELSE @ \cup {Batch(getAll)[getAll.settled + 1]}]
    /\ UNCHANGED <<store, setReq>>
    /\ UNCHANGED <<sessionVars, monitorVars, samplerVars, now, dbVars>>

\* Promise.all resumes the handler
BatchSettled ==
    /\ getAll.pc = "awaitGet"
    /\ AllSettled(Len(getAll.reads), getAll.settled)
    /\ GetReply(getAll.failed \cap SeqToSet(Batch(getAll)))

\* handleSet up to its await: 400 when `!key || value === undefined`, else the
\* set is sent; the store applies the verbs of a connection in the order sent
SetStart(key, value) ==
    /\ setReq.pc = "idle"
    /\ validateConnection
    /\ IF key = "" \/ value = Undefined
       THEN UNCHANGED <<setReq, store>>
       ELSE /\ setReq' = [pc |-> "awaitSet", key |-> key]
            /\ store' = [store EXCEPT ![key] = value]
    /\ UNCHANGED getAll
    /\ UNCHANGED <<sessionVars, monitorVars, samplerVars, now, dbVars>>

\* the set replies OK
SetReply ==
    /\ setReq.pc = "awaitSet"
    /\ setReq' = SetIdle
    /\ UNCHANGED <<store, getAll>>
    /\ UNCHANGED <<sessionVars, monitorVars, samplerVars, now, dbVars>>

\* handleDelete: two requests, so that one can run between the await of the
\* other.  status is the HTTP status of the request's last answer (0: none
\* yet) and deletedCount what its del returned.
DeleteReqs == {"d1", "d2"}

DeleteIdle == [pc |-> "idle", key |-> "", exists |-> 0, status |-> 0, deletedCount |-> 0]

\* EXISTS key / DEL key on the keyspace: the number of keys found / removed
Exists(keyspace, key) == IF keyspace[key] # Null THEN 1 ELSE 0

\* handleDelete up to its first await: validateConnection passes and exists is
\* sent; the store serves it on the keyspace as it is then
DeleteStart(r, key) ==
    /\ delReq[r].pc = "idle"
    /\ validateConnection
    /\ delReq' = [delReq EXCEPT ![r] = [pc |-> "awaitExists", key |-> key,
                                        exists |-> Exists(store, key),
                                        status |-> 0, deletedCount |-> 0]]
    /\ UNCHANGED <<alertsStorage, latencyTest, adminReply, resolver>>
    /\ UNCHANGED <<performanceHistory, systemAlerts, monitoring, nSamples>>
    /\ UNCHANGED <<sessionVars, scanVars, samplerVars, now, dbVars>>

\* the reply of exists: 404 if (!exists), else del is sent and the store
\* removes the key, if it still holds it
DeleteExists(r) ==
    /\ delReq[r].pc = "awaitExists"
    /\ IF delReq[r].exists = 0
       THEN /\ delReq' = [delReq EXCEPT ![r].pc = "idle", ![r].status = 404]
            /\ UNCHANGED store
       ELSE /\ delReq' = [delReq EXCEPT ![r].pc = "awaitDel",
                                        ![r].deletedCount = Exists(store, delReq[r].key)]
            /\ store' = [store EXCEPT ![delReq[r].key] = Null]
    /\ UNCHANGED <<getAll, setReq>>
    /\ UNCHANGED <<alertsStorage, latencyTest, adminReply, resolver>>
    /\ UNCHANGED <<performanceHistory, systemAlerts, monitoring, nSamples>>
    /\ UNCHANGED <<sessionVars, samplerVars, now, dbVars>>

\* the reply of del: res.json({success: true, ..., deletedCount: result})
DeleteReply(r) ==
    /\ delReq[r].pc = "awaitDel"
    /\ delReq' = [delReq EXCEPT ![r].pc = "idle", ![r].status = 200]
    /\ UNCHANGED <<alertsStorage, latencyTest, adminReply, resolver>>
    /\ UNCHANGED <<performanceHistory, systemAlerts, monitoring, nSamples>>
    /\ UNCHANGED <<sessionVars, scanVars, samplerVars, now, dbVars>>

\* the store drops a key on its own: its time to live ran out, or another
\* client deleted it or flushed the database
KeyGone(key) ==
    /\ store[key] # Null
    /\ store' = [store EXCEPT ![key] = Null]
    /\ UNCHANGED <<getAll, setReq>>
    /\ UNCHANGED <<sessionVars, monitorVars, samplerVars, now, dbVars>>

\* -------------------------- handleRealtimeMonitoring, history, system alerts
\* this.maxHistoryPoints = 100
maxHistoryPoints == 100
\* Date.now() - alert.timestamp < 60000
DuplicateWindow == 60000
\* now - alert.timestamp < 5 * 60 * 1000
AlertMaxAge == 300000

\* samples one run of the history model / of the alert model takes
MaxHistorySamples == 102
MaxAlertSamples == 3
\* the clock of the alert model: its step and its last reading, in ms
AlertClockStep == 30000
AlertMaxClock == 360000

\* Math.round(n / d) for d > 0: the nearest integer, halves towards +infinity
MathRound(n, d) == (2 * n + d) \div (2 * d)

\* What the info replies hold, as far as the history and the alerts use it;
\* memFragmentationRatio in hundredths.
HealthySample ==
    [usedMemory |-> 10, maxMemory |-> 0, memFragmentationRatio |-> 100,
     keyspaceHits |-> 9, keyspaceMisses |-> 1, connectedClients |-> 1]

HealthySamples == {HealthySample}

\* a sample that sits on each of the three thresholds and crosses none
ThresholdSample ==
    [usedMemory |-> 90, maxMemory |-> 100, memFragmentationRatio |-> 200,
     keyspaceHits |-> 7, keyspaceMisses |-> 3, connectedClients |-> 1]

AlertSamples ==
    {HealthySample, ThresholdSample,
     [usedMemory |-> 95, maxMemory |-> 100, memFragmentationRatio |-> 250,
      keyspaceHits |-> 9, keyspaceMisses |-> 1, connectedClients |-> 1],
     [usedMemory |-> 10, maxMemory |-> 0, memFragmentationRatio |-> 100,
      keyspaceHits |-> 0, keyspaceMisses |-> 0, connectedClients |-> 1]}

\* a sample of a store over 90% of its memory limit with more than 1000
\* clients connected
CrowdedSample ==
    [usedMemory |-> 95, maxMemory |-> 100, memFragmentationRatio |-> 100,
     keyspaceHits |-> 9, keyspaceMisses |-> 1, connectedClients |-> 1001]

HealthSamples == AlertSamples \cup {CrowdedSample}

calculateHitRatio(stats) ==
    LET total == stats.keyspaceHits + stats.keyspaceMisses
    IN  IF total > 0 THEN MathRound(stats.keyspaceHits * 100, total) ELSE 0

\* realtimeData; seq numbers the samples in the order they are taken
RealtimeData(info, seq, t) ==
    [seq |-> seq, timestamp |-> t,
     usedMemory |-> info.usedMemory, maxMemory |-> info.maxMemory,
     memFragmentationRatio |-> info.memFragmentationRatio,
     keyspaceHits |-> info.keyspaceHits, keyspaceMisses |-> info.keyspaceMisses,
     hitRatio |-> calculateHitRatio(info),
     connectedClients |-> info.connectedClients]

\* a push that never drops the oldest sample
PushHistory_NoShift(history, data) == Append(history, data)

\* this.performanceHistory.push(realtimeData);
\* if (this.performanceHistory.length > this.maxHistoryPoints) shift()
PushHistory(history, data) ==
    LET pushed == Append(history, data)
    IN  IF Len(pushed) > maxHistoryPoints THEN Tail(pushed) ELSE pushed

\* an alert is raised whatever the set holds
addSystemAlert_NoDuplicateCheck(alerts, severity, title, t) ==
    Append(alerts, [id |-> ToString(t), severity |-> severity, title |-> title,
                         timestamp |-> t])

addSystemAlert(alerts, severity, title, t) ==
    IF \E i \in 1..Len(alerts) :
           alerts[i].title = title /\ t - alerts[i].timestamp < DuplicateWindow
    THEN alerts
    ELSE Append(alerts, [id |-> ToString(t), severity |-> severity, title |-> title,
                         timestamp |-> t])

\* a memory check that does not ask whether a limit is set
checkSystemAlerts_NoLimitCheck(alerts, data, t) ==
    LET Fresh(alert) == t - alert.timestamp < AlertMaxAge
        kept == SelectSeq(alerts, Fresh)
        memory ==
            IF data.maxMemory = 0 \/ data.usedMemory * 100 > 90 * data.maxMemory
            THEN addSystemAlert(kept, "critical", "Memory Critical", t)
            ELSE kept
        fragmentation ==
            IF data.memFragmentationRatio > 200
            THEN addSystemAlert(memory, "warning", "High Memory Fragmentation", t)
            ELSE memory
    IN  IF data.hitRatio < 70
        THEN addSystemAlert(fragmentation, "warning", "Low Cache Hit Ratio", t)
        ELSE fragmentation

checkSystemAlerts(alerts, data, t) ==
    LET Fresh(alert) == t - alert.timestamp < AlertMaxAge
        kept == SelectSeq(alerts, Fresh)
        memory ==
            IF data.maxMemory > 0 /\ data.usedMemory * 100 > 90 * data.maxMemory
            THEN addSystemAlert(kept, "critical", "Memory Critical", t)
            ELSE kept
        fragmentation ==
            IF data.memFragmentationRatio > 200
            THEN addSystemAlert(memory, "warning", "High Memory Fragmentation", t)
            ELSE memory
    IN  IF data.hitRatio < 70
        THEN addSystemAlert(fragmentation, "warning", "Low Cache Hit Ratio", t)
        ELSE fragmentation

\* validateConnection passes; the four info requests are sent.  A run takes at
\* most maxSamples samples.
MonitoringStart(maxSamples) ==
    /\ monitoring = "idle"
    /\ validateConnection
    /\ nSamples < maxSamples
    /\ monitoring' = "await"
    /\ UNCHANGED <<performanceHistory, systemAlerts, nSamples, adminVars>>
    /\ UNCHANGED <<sessionVars, scanVars, samplerVars, now, dbVars>>

\* the info replies are in: build realtimeData, store it in the history, check
\* for alerts, answer
MonitoringReply(info) ==
    /\ monitoring = "await"
    /\ LET realtimeData == RealtimeData(info, nSamples + 1, now)
       IN  /\ performanceHistory' = PushHistory(performanceHistory, realtimeData)
           /\ systemAlerts' = checkSystemAlerts(systemAlerts, realtimeData, now)
    /\ nSamples' = nSamples + 1
    /\ monitoring' = "idle"
    /\ UNCHANGED adminVars
    /\ UNCHANGED <<sessionVars, scanVars, samplerVars, now, dbVars>>

\* a catch that stores what it has
MonitoringFails_StoresSample ==
    /\ monitoring = "await"
    /\ monitoring' = "idle"
    /\ performanceHistory' =
          PushHistory(performanceHistory, RealtimeData(HealthySample, nSamples, now))
    /\ UNCHANGED <<systemAlerts, nSamples, adminVars>>
    /\ UNCHANGED <<sessionVars, scanVars, samplerVars, now, dbVars>>

\* an info request rejects: 500, nothing is stored
MonitoringFails ==
    /\ monitoring = "await"
    /\ monitoring' = "idle"
    /\ UNCHANGED <<performanceHistory, systemAlerts, nSamples, adminVars>>
    /\ UNCHANGED <<sessionVars, scanVars, samplerVars, now, dbVars>>

\* a flush that clears the alert rules as well
handleFlushLogs_ClearsRules ==
    /\ performanceHistory' = <<>>
    /\ systemAlerts' = <<>>
    /\ alertsStorage' = <<>>
    /\ UNCHANGED <<monitoring, nSamples, latencyTest, adminReply, delReq, resolver>>
    /\ UNCHANGED <<sessionVars, scanVars, samplerVars, now, dbVars>>

\* handleFlushLogs, which has no await
handleFlushLogs ==
    /\ performanceHistory' = <<>>
    /\ systemAlerts' = <<>>
    /\ UNCHANGED <<monitoring, nSamples, adminVars>>
    /\ UNCHANGED <<sessionVars, scanVars, samplerVars, now, dbVars>>

\* time passes
ClockAdvance(step, last) ==
    /\ now + step <= last
    /\ now' = now + step
    /\ UNCHANGED <<sessionVars, scanVars, monitorVars, samplerVars, dbVars>>

\* ------------------------------------------------------------ startMonitoring
\* sampler callbacks in flight, commands a store processes, and the clock of
\* the sampler model
MaxTicks == 2
MaxProcessed == 1
SamplerClockStep == 1000
SamplerMaxClock == 2000

\* the setInterval callback runs: `if (this.client && this.client.isReady)`,
\* info('stats') is sent on this.client
SamplerTick ==
    /\ monitoringInterval
    /\ validateConnection
    /\ Len(ticks) < MaxTicks
    /\ ticks' = Append(ticks, client)
    /\ UNCHANGED <<realtimeStats, processed>>
    /\ UNCHANGED <<sessionVars, scanVars, monitorVars, now, dbVars>>

Without(q, i) == SubSeq(q, 1, i - 1) \o SubSeq(q, i + 1, Len(q))

\* a handle answers its requests in the order they were sent
NextReplyOf(i) == i \in 1..Len(ticks) /\ \A j \in 1..(i - 1) : ticks[j] # ticks[i]

\* info('stats') replies to the callback
TickReply(i) ==
    /\ NextReplyOf(i)
    /\ handles[ticks[i]] = "ready"
    /\ LET currentOps == processed[ticks[i]]
           timeDiff == now - realtimeStats.lastUpdate      \* in ms
       IN  realtimeStats' =
             IF timeDiff > 0
             THEN [opsPerSec |-> MathRound((currentOps - realtimeStats.lastOperations) * 1000,
                                           timeDiff),
                   lastOperations |-> currentOps,
                   lastUpdate |-> now]
             ELSE realtimeStats
    /\ ticks' = Without(ticks, i)
    /\ UNCHANGED processed
    /\ UNCHANGED <<sessionVars, scanVars, monitorVars, now, dbVars>>

\* info('stats') rejects: the callback logs the error
TickFails(i) ==
    /\ NextReplyOf(i)
    /\ handles[ticks[i]] \in {"ready", "closed"}
    /\ ticks' = Without(ticks, i)
    /\ UNCHANGED <<realtimeStats, processed>>
    /\ UNCHANGED <<sessionVars, scanVars, monitorVars, now, dbVars>>

\* the store behind a live handle processes a command
StoreWork(h) ==
    /\ Live(handles, h)
    /\ processed[h] < MaxProcessed
    /\ processed' = [processed EXCEPT ![h] = @ + 1]
    /\ UNCHANGED <<realtimeStats, ticks>>
    /\ UNCHANGED <<sessionVars, scanVars, monitorVars, now, dbVars>>

\* --------------------------------------------------------- handleLatencyTest
\* What the handlers of this part answer: the HTTP status and the JSON body.
\* flip changes with every answer, so that two equal answers in a row are two.
NoReply == [flip |-> FALSE, kind |-> "none", status |-> 0, body |-> [success |-> FALSE]]

Reply(kind, status, body) ==
    adminReply' = [flip |-> ~adminReply.flip, kind |-> kind, status |-> status, body |-> body]

\* a step that sends the answer of a handler of that kind
Replies(kind) == adminReply'.flip # adminReply.flip /\ adminReply'.kind = kind

\* parseInt(req.query.samples) || 50
defaultTestCount == 50
\* Math.min(testCount, 200)
maxTestsCap == 200

\* the ?samples= values of a request, from BelowZero under 0 up to one above the
\* cap; a missing or non-numeric value parses to NaN and counts as 0 does
BelowZero == 1
MaxSmallSamples == 3
SampleInputs == ((0 - BelowZero)..MaxSmallSamples) \cup {maxTestsCap + 1}

\* the latencies a probe can measure, in hundredths of a millisecond
Latencies == {1, 2}

\* the clock of the benchmark model: its step and its last reading, in ms
BenchClockStep == 1
BenchMaxClock == 1

\* latencies is kept in ascending order: the handler sorts the list with
\* (a, b) => a - b before its first read, and reads it nowhere else.
\* requested is the ?samples= value and probes counts the pings sent; status
\* and endTime tell how the last request ended and when.
LatencyTestIdle ==
    [pc |-> "idle", requested |-> 0, maxTests |-> 0, i |-> 0, latencies |-> <<>>,
     startTime |-> 0, endTime |-> 0, probes |-> 0, status |-> "none"]

\* a cap that is not applied
MaxTests_NoCap(samples) == IF samples = 0 THEN defaultTestCount ELSE samples

\* const testCount = parseInt(req.query.samples) || 50;
\* const maxTests = Math.min(testCount, 200)
MaxTests(samples) ==
    LET testCount == IF samples = 0 THEN defaultTestCount ELSE samples
    IN  Min(testCount, maxTestsCap)

\* latencies.push(x); ...; latencies.sort((a, b) => a - b)
RECURSIVE InsertSorted(_, _)
InsertSorted(q, x) ==
    IF q = <<>> \/ x <= Head(q)
    THEN <<x>> \o q
    ELSE <<Head(q)>> \o InsertSorted(Tail(q), x)

RECURSIVE Sum(_)
Sum(q) == IF q = <<>> THEN 0 ELSE Head(q) + Sum(Tail(q))

\* Math.floor(latencies.length * 0.95), Math.floor(latencies.length * 0.99),
\* Math.floor(latencies.length / 2): percent is 95, 99 or 50
PercentileIndex(n, percent) == (n * percent) \div 100

\* latencies[index]: undefined outside 0..length-1
Defined(q, index) == index \in 0..(Len(q) - 1)

\* the indexes the handler reads from the sorted list
StatIndexes(n) ==
    [min |-> 0, max |-> n - 1, median |-> PercentileIndex(n, 50),
     p95 |-> PercentileIndex(n, 95), p99 |-> PercentileIndex(n, 99)]

\* Math.round((maxTests / totalTime) * 1000): Infinity when totalTime is 0
Throughput(maxTests, totalTime) ==
    [finite |-> totalTime # 0,
     value |-> IF totalTime = 0 THEN 0 ELSE MathRound(maxTests * 1000, totalTime)]

\* After the loop: x.toFixed(2) throws a TypeError for an undefined x, and the
\* catch answers 500
LatencyTestEnds(rec, endTime) ==
    LET at == StatIndexes(Len(rec.latencies))
    IN  [rec EXCEPT
            !.pc = "idle",
            !.endTime = endTime,
            !.status = IF \A f \in DOMAIN at : Defined(rec.latencies, at[f])
                       THEN "ok"
                       ELSE "TypeError"]

\* the body of the 200 answer of a request that ended as rec
LatencyTestResponse(rec) ==
    LET q == rec.latencies
        at == StatIndexes(Len(q))
        totalTime == rec.endTime - rec.startTime
    IN  [success |-> TRUE,
         min |-> q[at.min + 1], max |-> q[at.max + 1],
         avg |-> MathRound(Sum(q), Len(q)),
         median |-> q[at.median + 1],
         p95 |-> q[at.p95 + 1], p99 |-> q[at.p99 + 1],
         samples |-> rec.maxTests,
         totalTime |-> totalTime,
         throughput |-> Throughput(rec.maxTests, totalTime)]

\* validateConnection throws: 500
LatencyTestRefused ==
    /\ latencyTest.pc = "idle"
    /\ ~validateConnection
    /\ latencyTest' = [LatencyTestIdle EXCEPT !.status = "Not connected"]
    /\ UNCHANGED <<alertsStorage, adminReply, delReq, resolver>>
    /\ UNCHANGED <<performanceHistory, systemAlerts, monitoring, nSamples>>
    /\ UNCHANGED <<sessionVars, scanVars, samplerVars, now, dbVars>>

\* handleLatencyTest up to its first await: the first ping is sent, or the loop
\* body never runs
LatencyTestStart(samples) ==
    /\ latencyTest.pc = "idle"
    /\ validateConnection
    /\ LET rec == [LatencyTestIdle EXCEPT !.requested = samples,
                                          !.maxTests = MaxTests(samples),
                                          !.startTime = now]
       IN  latencyTest' = IF 0 < rec.maxTests
                          THEN [rec EXCEPT !.pc = "await", !.probes = 1]
                          ELSE LatencyTestEnds(rec, now)
    /\ UNCHANGED <<alertsStorage, adminReply, delReq, resolver>>
    /\ UNCHANGED <<performanceHistory, systemAlerts, monitoring, nSamples>>
    /\ UNCHANGED <<sessionVars, scanVars, samplerVars, now, dbVars>>

\* the awaited ping replies: its latency is recorded; the next ping is sent, or
\* the statistics are answered
ProbeReply(latency) ==
    /\ latencyTest.pc = "await"
    /\ LET rec == [latencyTest EXCEPT
                       !.latencies = InsertSorted(@, latency),
                       !.i = @ + 1]
       IN  latencyTest' = IF rec.i < rec.maxTests
                          THEN [rec EXCEPT !.probes = @ + 1]
                          ELSE LatencyTestEnds(rec, now)
    /\ UNCHANGED <<alertsStorage, adminReply, delReq, resolver>>
    /\ UNCHANGED <<performanceHistory, systemAlerts, monitoring, nSamples>>
    /\ UNCHANGED <<sessionVars, scanVars, samplerVars, now, dbVars>>

\* the awaited ping rejects: the catch answers 500 and no further ping is sent
ProbeFails ==
    /\ latencyTest.pc = "await"
    /\ latencyTest' = [latencyTest EXCEPT !.pc = "idle", !.status = "rejected",
                                          !.endTime = now]
    /\ UNCHANGED <<alertsStorage, adminReply, delReq, resolver>>
    /\ UNCHANGED <<performanceHistory, systemAlerts, monitoring, nSamples>>
    /\ UNCHANGED <<sessionVars, scanVars, samplerVars, now, dbVars>>

\* ------------------------------- alert rules, the alert list, system health
\* validateConnection throws in handleRealtimeMonitoring: 500, nothing is sent
MonitoringRefused ==
    /\ monitoring = "idle"
    /\ ~validateConnection
    /\ Reply("handleRealtimeMonitoring", 500, [success |-> FALSE])
    /\ UNCHANGED <<alertsStorage, latencyTest, delReq, resolver>>
    /\ UNCHANGED <<performanceHistory, systemAlerts, monitoring, nSamples>>
    /\ UNCHANGED <<sessionVars, scanVars, samplerVars, now, dbVars>>

\* the bodies of POST /api/monitoring/alerts: `enabled` is given or not
RuleBodies ==
    {[name |-> "a", condition |-> "memory", threshold |-> 80,
      enabledGiven |-> FALSE, enabled |-> FALSE],
     [name |-> "b", condition |-> "memory", threshold |-> 80,
      enabledGiven |-> TRUE, enabled |-> FALSE]}

\* Date.now().toString()
NewId(t) == ToString(t)

\* const { name, condition, threshold, enabled = true } = req.body; the alert
NewRule(body, t) ==
    [id |-> NewId(t), name |-> body.name, condition |-> body.condition,
     threshold |-> body.threshold,
     enabled |-> IF body.enabledGiven THEN body.enabled ELSE TRUE,
     triggered |-> FALSE, lastTriggered |-> Null, createdAt |-> t]

handleCreateAlert(body) ==
    /\ alertsStorage' = Append(alertsStorage, NewRule(body, now))
    /\ Reply("handleCreateAlert", 200, [success |-> TRUE, alert |-> NewRule(body, now)])
    /\ UNCHANGED <<latencyTest, delReq, resolver>>
    /\ UNCHANGED <<performanceHistory, systemAlerts, monitoring, nSamples>>
    /\ UNCHANGED <<sessionVars, scanVars, samplerVars, now, dbVars>>

\* this.alertsStorage.findIndex(alert => alert.id === id): the first match,
\* counted from 1, or 0 where the code has -1
FindIndex(rules, id) ==
    IF \E i \in 1..Len(rules) : rules[i].id = id
    THEN CHOOSE i \in 1..Len(rules) :
             /\ rules[i].id = id
             /\ \A j \in 1..(i - 1) : rules[j].id # id
    ELSE 0

\* 404 when no rule has the id, else splice(index, 1)
handleDeleteAlert(id) ==
    /\ LET index == FindIndex(alertsStorage, id)
       IN  IF index = 0
           THEN /\ Reply("handleDeleteAlert", 404, [success |-> FALSE, id |-> id])
                /\ UNCHANGED alertsStorage
           ELSE /\ alertsStorage' = Without(alertsStorage, index)
                /\ Reply("handleDeleteAlert", 200, [success |-> TRUE, id |-> id])
    /\ UNCHANGED <<latencyTest, delReq, resolver>>
    /\ UNCHANGED <<performanceHistory, systemAlerts, monitoring, nSamples>>
    /\ UNCHANGED <<sessionVars, scanVars, samplerVars, now, dbVars>>

\* the body handleGetAlerts answers in the state it runs in
GetAlertsResponse ==
    [success |-> TRUE, alerts |-> alertsStorage, systemAlerts |-> systemAlerts]

\* handleGetAlerts answers GetAlertsResponse: the lists as they are, no purge
handleGetAlerts ==
    /\ Reply("handleGetAlerts", 200, [success |-> TRUE])
    /\ UNCHANGED <<alertsStorage, latencyTest, delReq, resolver>>
    /\ UNCHANGED <<performanceHistory, systemAlerts, monitoring, nSamples>>
    /\ UNCHANGED <<sessionVars, scanVars, samplerVars, now, dbVars>>

\* The checks of handleSystemHealth on the latest sample, in the order of the
\* code: each one that fires assigns health.status and pushes an issue.
\* memFragmentationRatio is in hundredths.
Health(latest) ==
    LET h0 == [status |-> "healthy", issues |-> <<>>]
        h1 == IF latest.memFragmentationRatio > 150
              THEN [status |-> "warning",
                    issues |-> Append(h0.issues, "High memory fragmentation")]
              ELSE h0
        h2 == IF latest.hitRatio < 80
              THEN [status |-> "warning",
                    issues |-> Append(h1.issues, "Low cache hit ratio")]
              ELSE h1
        limited == latest.maxMemory > 0
        h3 == IF limited /\ latest.usedMemory * 100 > 90 * latest.maxMemory
              THEN [status |-> "critical",
                    issues |-> Append(h2.issues, "Critical memory usage")]
              ELSE IF limited /\ latest.usedMemory * 100 > 75 * latest.maxMemory
              THEN [status |-> "warning",
                    issues |-> Append(h2.issues, "High memory usage")]
              ELSE h2
    IN  IF latest.connectedClients > 1000
        THEN [status |-> "warning",
              issues |-> Append(h3.issues, "High connection count")]
        ELSE h3

\* a handler that answers 500 when there is no sample
NoData_Error == [status |-> 500, health |-> [status |-> "error", issues |-> <<>>]]

\* const latest = this.performanceHistory[length - 1]; if (!latest) { ... }
NoData ==
    [status |-> 200,
     health |-> [status |-> "warning", issues |-> <<"No performance data available">>]]

\* handleSystemHealth, which has no await
SystemHealth ==
    /\ IF ~validateConnection
       THEN Reply("handleSystemHealth", 500, [success |-> FALSE])
       ELSE IF performanceHistory = <<>>
       THEN Reply("handleSystemHealth", NoData.status,
                  [success |-> NoData.status = 200, health |-> NoData.health])
       ELSE Reply("handleSystemHealth", 200,
                  [success |-> TRUE,
                   health |-> Health(performanceHistory[Len(performanceHistory)])])
    /\ UNCHANGED <<alertsStorage, latencyTest, delReq, resolver>>
    /\ UNCHANGED <<performanceHistory, systemAlerts, monitoring, nSamples>>
    /\ UNCHANGED <<sessionVars, scanVars, samplerVars, now, dbVars>>

\* const { points = 50 } = req.query
defaultPoints == 50

\* the ?points= values of a request, from BelowZero under 0 up to one above
\* maxHistoryPoints; a request without ?points= counts as defaultPoints does
MaxSmallPoints == 2
PointsInputs ==
    ((0 - BelowZero)..MaxSmallPoints) \cup {defaultPoints, maxHistoryPoints + 1}

\* Array.prototype.slice(start): a negative start counts from the end, and a
\* start of -0 is a start of 0
Slice(q, start) ==
    LET from == IF start < 0
                THEN (IF Len(q) + start < 0 THEN 0 ELSE Len(q) + start)
                ELSE Min(start, Len(q))
    IN  SubSeq(q, from + 1, Len(q))

\* Math.min(parseInt(points), this.maxHistoryPoints)
RequestedPoints(points) == Min(points, maxHistoryPoints)

\* the body handlePerformanceHistory answers in the state it runs in
PerformanceHistoryResponse(points) ==
    [success |-> TRUE,
     history |-> Slice(performanceHistory, 0 - RequestedPoints(points)),
     totalPoints |-> Len(performanceHistory),
     requestedPoints |-> RequestedPoints(points)]

\* handlePerformanceHistory, which has no await and does not ask for a session;
\* it answers PerformanceHistoryResponse(points)
handlePerformanceHistory(points) ==
    /\ Reply("handlePerformanceHistory", 200,
             [success |-> TRUE, points |-> points,
              requestedPoints |-> RequestedPoints(points)])
    /\ UNCHANGED <<alertsStorage, latencyTest, delReq, resolver>>
    /\ UNCHANGED <<performanceHistory, systemAlerts, monitoring, nSamples>>
    /\ UNCHANGED <<sessionVars, scanVars, samplerVars, now, dbVars>>

\* ------------------------------------------------- the database handlers
\* The handlers that select a database on the session's connection.  The
\* connection serves its verbs in the order they were sent, so a verb takes
\* effect when it is sent; whether it will succeed is chosen then, and the
\* handler learns it when its await returns.
\* the database numbers a request body may carry: from BelowRange under 0 up
\* to MaxDatabase; and the databases that may hold a key at one time
BelowRange == 1
MaxDatabase == 16
MaxDbKeys == 1
\* verbs of the database handlers the store fails in one run
MaxFailures == 1
\* of the database model: the databases a handleSwitchDatabase asks for
TourDatabases == {0, 1}

Databases == 0..(NumDatabases - 1)

DatabaseInputs == (0 - BelowRange)..MaxDatabase

\* a check that forgets the lower end of the range
OutOfRange_NoLowerBound(database) == database > 15

\* if (database < 0 || database > 15)
OutOfRange(database) == database < 0 \/ database > 15

\* the store has the databases 0..15: a select of any other index is rejected;
\* any verb may fail on a ready connection
SelectOutcomes(database) == IF database \in Databases THEN BOOLEAN ELSE {FALSE}

\* `database` of a flush body is optional
FlushBodies == {[given |-> FALSE, database |-> 0], [given |-> TRUE, database |-> 1]}

\* pc: the verb awaited; ok: whether it succeeds
TourIdle ==
    [pc |-> "idle", kind |-> "none", i |-> 0, originalDb |-> 0, targetDb |-> 0,
     ok |-> TRUE]

SwitchIdle == [pc |-> "idle", database |-> 0, ok |-> TRUE]

\* db: the database the set was served in
DbSetIdle == [pc |-> "idle", db |-> 0]

\* the session variables a database handler leaves alone
sessionRest == <<handles, nextHandle, client, monitoringInterval,
                 connectionConfig, conn, disc, op>>

\* the connection after select(database) was sent with outcome ok
Select(database, ok) == IF ok THEN database ELSE selected

\* The connection answers its verbs in the order they were sent: request
\* `who` sends a verb, and the reply it awaits is the next one to arrive.
Sends(who, q) == inFlight' = Append(q, who)

Served(who) == inFlight # <<>> /\ Head(inFlight) = who

\* the store fails a verb
Fails(ok) ==
    /\ ok \/ failures < MaxFailures
    /\ failures' = IF ok THEN failures ELSE failures + 1

\* handleSwitchDatabase up to its await: 400 for a database out of range, else
\* select(database) is sent
SwitchDatabaseStart(database, ok) ==
    /\ switchReq.pc = "idle"
    /\ validateConnection
    /\ IF OutOfRange(database)
       THEN /\ switchReq' = [SwitchIdle EXCEPT !.database = database]
            /\ Respond("s", "handleSwitchDatabase", "OutOfRange")
            /\ UNCHANGED <<selected, failures, inFlight>>
       ELSE /\ ok \in SelectOutcomes(database)
            /\ switchReq' = [pc |-> "await", database |-> database, ok |-> ok]
            /\ selected' = Select(database, ok)
            /\ Fails(ok)
            /\ Sends("s", inFlight)
            /\ Silent
    /\ UNCHANGED <<currentDatabase, dbKeys, tour, dbSet>>
    /\ UNCHANGED <<sessionRest, scanVars, monitorVars, samplerVars, now>>

\* the select settles: this.currentDatabase = database and 200, or 500
SwitchDatabaseReply ==
    /\ switchReq.pc = "await"
    /\ Served("s")
    /\ inFlight' = Tail(inFlight)
    /\ IF switchReq.ok
       THEN /\ currentDatabase' = switchReq.database
            /\ Respond("s", "handleSwitchDatabase", "ok")
       ELSE /\ Respond("s", "handleSwitchDatabase", "error")
            /\ UNCHANGED currentDatabase
    /\ switchReq' = [switchReq EXCEPT !.pc = "idle"]
    /\ UNCHANGED <<selected, dbKeys, tour, dbSet, failures>>
    /\ UNCHANGED <<sessionRest, scanVars, monitorVars, samplerVars, now>>

\* a tour sends `verb` next, with outcome ok; select goes to database
TourSends(t, verb, database, ok) ==
    /\ tour' = [t EXCEPT !.pc = verb, !.ok = ok]
    /\ selected' = IF verb \in {"select", "restore"} THEN Select(database, ok)
                   ELSE selected
    /\ dbKeys' = CASE verb = "flushDb" /\ ok -> dbKeys \ {selected}
                   [] verb = "flushAll" /\ ok -> {}
                   [] OTHER -> dbKeys
    /\ Fails(ok)
    /\ Sends("t", IF t.pc = "idle" THEN inFlight ELSE Tail(inFlight))
    /\ Silent

\* a tour answers
TourAnswers(kind, result) ==
    /\ tour' = TourIdle
    /\ Respond("t", kind, result)
    /\ inFlight' = Tail(inFlight)
    /\ UNCHANGED <<selected, dbKeys, failures>>

\* handleDatabasesInfo up to its first await: originalDb, then select(0)
DatabasesInfoStart(ok) ==
    /\ tour.pc = "idle"
    /\ validateConnection
    /\ TourSends([TourIdle EXCEPT !.kind = "handleDatabasesInfo",
                                  !.originalDb = currentDatabase],
                 "select", 0, ok)
    /\ UNCHANGED <<currentDatabase, switchReq, dbSet>>
    /\ UNCHANGED <<sessionRest, scanVars, monitorVars, samplerVars, now>>

\* the next round of the for loop, or after the last one the select that
\* returns to originalDb
DatabasesInfoNext(t, ok) ==
    IF t.i + 1 < NumDatabases
    THEN ok \in SelectOutcomes(t.i + 1)
            /\ TourSends([t EXCEPT !.i = t.i + 1], "select", t.i + 1, ok)
    ELSE ok \in SelectOutcomes(t.originalDb)
            /\ TourSends(t, "restore", t.originalDb, ok)

\* an await of handleDatabasesInfo returns: a failure inside the loop is caught
\* and the loop goes on with the next database
DatabasesInfoStep(ok) ==
    /\ tour.kind = "handleDatabasesInfo"
    /\ Served("t")
    /\ CASE tour.pc = "select" ->
              IF tour.ok THEN TourSends(tour, "dbSize", 0, ok)
                         ELSE DatabasesInfoNext(tour, ok)
         [] tour.pc = "dbSize" ->
              IF tour.ok THEN TourSends(tour, "info", 0, ok)
                         ELSE DatabasesInfoNext(tour, ok)
         [] tour.pc = "info" -> DatabasesInfoNext(tour, ok)
         [] tour.pc = "restore" ->
              TourAnswers(tour.kind, IF tour.ok THEN "ok" ELSE "error")
    /\ UNCHANGED <<currentDatabase, switchReq, dbSet>>
    /\ UNCHANGED <<sessionRest, scanVars, monitorVars, samplerVars, now>>

\* handleFlushDatabase up to its first await: select(targetDb)
FlushDatabaseStart(body, ok) ==
    /\ tour.pc = "idle"
    /\ validateConnection
    /\ LET targetDb == IF body.given THEN body.database ELSE currentDatabase
       IN  /\ ok \in SelectOutcomes(targetDb)
           /\ TourSends([TourIdle EXCEPT !.kind = "handleFlushDatabase",
                                         !.originalDb = currentDatabase,
                                         !.targetDb = targetDb],
                        "select", targetDb, ok)
    /\ UNCHANGED <<currentDatabase, switchReq, dbSet>>
    /\ UNCHANGED <<sessionRest, scanVars, monitorVars, samplerVars, now>>

\* an await of handleFlushDatabase returns: any failure answers 500 at once
FlushDatabaseStep(ok) ==
    /\ tour.kind = "handleFlushDatabase"
    /\ Served("t")
    /\ IF ~tour.ok
       THEN TourAnswers(tour.kind, "error")
       ELSE CASE tour.pc = "select" -> TourSends(tour, "dbSize", 0, ok)
              [] tour.pc = "dbSize" -> TourSends(tour, "flushDb", 0, ok)
              [] tour.pc = "flushDb" ->
                    ok \in SelectOutcomes(tour.originalDb)
                       /\ TourSends(tour, "restore", tour.originalDb, ok)
              [] tour.pc = "restore" -> TourAnswers(tour.kind, "ok")
    /\ UNCHANGED <<currentDatabase, switchReq, dbSet>>
    /\ UNCHANGED <<sessionRest, scanVars, monitorVars, samplerVars, now>>

\* handleFlushAllDatabases up to its first await: select(0)
FlushAllDatabasesStart(ok) ==
    /\ tour.pc = "idle"
    /\ validateConnection
    /\ TourSends([TourIdle EXCEPT !.kind = "handleFlushAllDatabases"],
                 "select", 0, ok)
    /\ UNCHANGED <<currentDatabase, switchReq, dbSet>>
    /\ UNCHANGED <<sessionRest, scanVars, monitorVars, samplerVars, now>>

\* the next round of the counting loop, or after the last one flushAll
FlushAllDatabasesNext(t, ok) ==
    IF t.i + 1 < NumDatabases
    THEN TourSends([t EXCEPT !.i = t.i + 1], "select", t.i + 1, ok)
    ELSE TourSends(t, "flushAll", 0, ok)

\* an await of handleFlushAllDatabases returns: a failure inside the loop is
\* caught; after flushAll the handler selects this.currentDatabase as it is then
FlushAllDatabasesStep(ok) ==
    /\ tour.kind = "handleFlushAllDatabases"
    /\ Served("t")
    /\ CASE tour.pc = "select" ->
              IF tour.ok THEN TourSends(tour, "dbSize", 0, ok)
                         ELSE FlushAllDatabasesNext(tour, ok)
         [] tour.pc = "dbSize" -> FlushAllDatabasesNext(tour, ok)
         [] tour.pc = "flushAll" ->
              IF tour.ok THEN TourSends(tour, "restore", currentDatabase, ok)
                         ELSE TourAnswers(tour.kind, "error")
         [] tour.pc = "restore" ->
              TourAnswers(tour.kind, IF tour.ok THEN "ok" ELSE "error")
    /\ UNCHANGED <<currentDatabase, switchReq, dbSet>>
    /\ UNCHANGED <<sessionRest, scanVars, monitorVars, samplerVars, now>>

\* handleSet on the connection as the database handlers leave it: the set is
\* served in the database selected when it is sent
DatabaseSetStart ==
    /\ dbSet.pc = "idle"
    /\ validateConnection
    /\ dbSet' = [pc |-> "await", db |-> selected]
    /\ dbKeys' = dbKeys \cup {selected}
    /\ Sends("w", inFlight)
    /\ Silent
    /\ UNCHANGED <<currentDatabase, selected, tour, switchReq, failures>>
    /\ UNCHANGED <<sessionRest, scanVars, monitorVars, samplerVars, now>>

\* the set replies OK: the answer names this.currentDatabase as the database
\* the key was set in
DatabaseSetReply ==
    /\ dbSet.pc = "await"
    /\ Served("w")
    /\ inFlight' = Tail(inFlight)
    /\ dbSet' = DbSetIdle
    /\ Respond("w", "handleSet", "ok")
    /\ UNCHANGED <<currentDatabase, selected, dbKeys, tour, switchReq, failures>>
    /\ UNCHANGED <<sessionRest, scanVars, monitorVars, samplerVars, now>>

\* ------------------------------------------------------ the session model
InitSession(creqs) ==
    /\ handles = [h \in Handles |-> "unused"]
    /\ nextHandle = 1
    /\ client = NoHandle
    /\ monitoringInterval = FALSE
    /\ connectionConfig = <<>>
    /\ currentDatabase = 0
    /\ conn = [r \in creqs |-> ConnIdle]
    /\ disc = DiscIdle
    /\ op = [o \in OpReqs |-> OpIdle]
    /\ response = NoResponse

NextConnect ==
    \/ \E r \in DOMAIN conn, body \in ConnectBodies : ConnectStart(r, body)
    \/ \E r \in DOMAIN conn : ConnectOldDisconnected(r)
    \/ \E r \in DOMAIN conn : ConnectSettled(r)
    \/ \E r \in DOMAIN conn : ConnectPinged(r)
    \/ \E r \in DOMAIN conn : ConnectSelected(r)
    \/ \E r \in DOMAIN conn : ConnectCleanedUp(r)
    \/ \E h \in Handles : ConnectionEstablished(h)
    \/ \E h \in Handles : ConnectionFailed(h)
    \/ DisconnectStart
    \/ DisconnectSettled

NextOp(kinds) ==
    \/ \E o \in OpReqs, kind \in kinds : \E script \in Scripts(kind) : OpStart(o, kind, script)
    \/ \E o \in OpReqs : OpReply(o)

\* ------------------------------------------------------- the specifications
InitDataOf(keyspace, connectionData) ==
    /\ store = keyspace
    /\ resolver = [connectionData |-> connectionData, returned |-> <<>>]
    /\ getAll = GetAllIdle
    /\ setReq = SetIdle
    /\ performanceHistory = <<>>
    /\ systemAlerts = <<>>
    /\ monitoring = "idle"
    /\ nSamples = 0
    /\ now = 0
    /\ realtimeStats = [opsPerSec |-> 0, lastOperations |-> 0, lastUpdate |-> 0]
    /\ ticks = <<>>
    /\ processed = [h \in Handles |-> 0]
    /\ selected = 0
    /\ dbKeys = {}
    /\ tour = TourIdle
    /\ switchReq = SwitchIdle
    /\ dbSet = DbSetIdle
    /\ failures = 0
    /\ inFlight = <<>>
    /\ alertsStorage = <<>>
    /\ latencyTest = LatencyTestIdle
    /\ adminReply = NoReply
    /\ delReq = [r \in DeleteReqs |-> DeleteIdle]

InitDataOver(keyspace) == InitDataOf(keyspace, LocalConnection)

InitData == InitDataOver([k \in Keys |-> Null])

\* the session as a first Connect to database 0 leaves it
SessionOpen ==
    /\ handles = [h \in Handles |-> IF h = 1 THEN "ready" ELSE "unused"]
    /\ nextHandle = 2
    /\ client = 1
    /\ monitoringInterval = TRUE
    /\ connectionConfig = <<[database |-> 0]>>
    /\ currentDatabase = 0
    /\ conn = [r \in {"c1"} |-> ConnIdle]
    /\ disc = DiscIdle
    /\ op = [o \in OpReqs |-> OpIdle]
    /\ response = [who |-> "c1", kind |-> "handleConnect", result |-> "ok"]

\* Connect and Disconnect requests, overlapping at their awaits
Init == InitSession(ConnReqs) /\ InitData

Next == NextConnect

Spec == Init /\ [][Next]_vars

\* The steps of the session model that the process takes by itself once they
\* are enabled: the race of connect() against the 15 s timer settles, at the
\* latest when the timer fires; disconnect() closes the socket at once and
\* settles; a verb queued on a handle whose socket was closed is rejected by
\* the client.  Nothing is assumed of the store: the transport may never come
\* up and a ping or a select sent on a ready handle may never be answered.
RejectedOnClosed(r) ==
    /\ conn[r].pc \in {"awaitPing", "awaitSelect"}
    /\ handles[conn[r].on] = "closed"
    /\ (ConnectPinged(r) \/ ConnectSelected(r))

Fairness ==
    /\ \A r \in ConnReqs : WF_vars(ConnectOldDisconnected(r))
    /\ \A r \in ConnReqs : WF_vars(ConnectSettled(r))
    /\ \A r \in ConnReqs : WF_vars(ConnectCleanedUp(r))
    /\ \A r \in ConnReqs : WF_vars(RejectedOnClosed(r))
    /\ WF_vars(DisconnectSettled)

SpecFair == Init /\ [][Next]_vars /\ Fairness

\* one Connect and one Disconnect at a time, and a gated request beside them
InitOps == InitSession({"c1"}) /\ InitData

NextOps == NextConnect \/ NextOp(OpKinds)

SpecOps == InitOps /\ [][NextOps]_vars

\* key enumeration and writes on an open session
InitScan == SessionOpen /\ InitData

NextScan ==
    \/ \E limit \in Limits : GetAllStart(limit)
    \/ \E keys \in Pages, cursor \in Cursors : ScanReply(keys, cursor)
    \/ ScanFails
    \/ \E failed \in SUBSET Keys : GetReply(failed)
    \/ \E key \in WrittenKeys \cup {""}, value \in Values \cup {Undefined} : SetStart(key, value)
    \/ SetReply

SpecScan == InitScan /\ [][NextScan]_vars

\* value retrieval in batches, for requests of up to MaxFetchKeys keys
InitFetch == SessionOpen /\ InitDataOver([k \in FetchKeys |-> "v"])

NextFetch ==
    \/ \E limit \in FetchLimits : GetAllStart(limit)
    \/ \E keys \in FetchPages : ScanReply(keys, "0")
    \/ ScanFails
    \/ \E ok \in BOOLEAN : GetSettles(ok)
    \/ BatchSettled

SpecFetch == InitFetch /\ [][NextFetch]_vars

\* latency benchmarks on an open session, with the clock running
InitBench == SessionOpen /\ InitData

NextBench ==
    \/ \E samples \in SampleInputs : LatencyTestStart(samples)
    \/ \E latency \in Latencies : ProbeReply(latency)
    \/ ProbeFails
    \/ ClockAdvance(BenchClockStep, BenchMaxClock)

SpecBench == InitBench /\ [][NextBench]_vars

\* samples and latency tests, on an open session or with no session at all
MaxSampleRuns == 2
MaxSampleRules == 1

InitSample == (SessionOpen \/ InitSession({"c1"})) /\ InitData

NextSample ==
    \/ MonitoringStart(MaxSampleRuns)
    \/ MonitoringRefused
    \/ \E info \in AlertSamples : MonitoringReply(info)
    \/ MonitoringFails
    \/ \E samples \in {0 - BelowZero, 1} : LatencyTestStart(samples)
    \/ LatencyTestRefused
    \/ \E latency \in Latencies : ProbeReply(latency)
    \/ ProbeFails
    \/ Len(alertsStorage) < MaxSampleRules /\ \E body \in RuleBodies : handleCreateAlert(body)

SpecSample == InitSample /\ [][NextSample]_vars

\* the alert list and the health report beside samples, over more than the
\* five minutes an alert is kept
MaxHealthSamples == 2
MaxHealthRules == 1
HealthClockStep == 200000
HealthMaxClock == 400000

InitHealth == SessionOpen /\ InitData

NextHealth ==
    \/ MonitoringStart(MaxHealthSamples)
    \/ \E info \in HealthSamples : MonitoringReply(info)
    \/ MonitoringFails
    \/ handleFlushLogs
    \/ handleGetAlerts
    \/ SystemHealth
    \/ Len(alertsStorage) < MaxHealthRules /\ \E body \in RuleBodies : handleCreateAlert(body)
    \/ ClockAdvance(HealthClockStep, HealthMaxClock)

SpecHealth == InitHealth /\ [][NextHealth]_vars

\* alert rules created, listed and deleted, several within one clock reading
MaxRules == 2
MaxRuleSamples == 1
RulesClockStep == 1
RulesMaxClock == 1

\* the :id of a delete request: an id some create may have returned, or not
DeleteIds == {NewId(t) : t \in 0..RulesMaxClock} \cup {"none"}

InitRules == SessionOpen /\ InitData

NextRules ==
    \/ Len(alertsStorage) < MaxRules /\ \E body \in RuleBodies : handleCreateAlert(body)
    \/ \E id \in DeleteIds : handleDeleteAlert(id)
    \/ handleGetAlerts
    \/ MonitoringStart(MaxRuleSamples)
    \/ \E info \in AlertSamples : MonitoringReply(info)
    \/ ClockAdvance(RulesClockStep, RulesMaxClock)

SpecRules == InitRules /\ [][NextRules]_vars

\* one alert rule, created and deleted again, beside everything else that runs
\* in the manager: Connect and Disconnect requests, the sampler callback,
\* samples and flush-logs
MaxFrameSamples == 1

InitFrame == InitSession({"c1"}) /\ InitData

NextFrame ==
    \/ NextConnect
    \/ SamplerTick
    \/ \E i \in 1..MaxTicks : TickReply(i)
    \/ \E i \in 1..MaxTicks : TickFails(i)
    \/ MonitoringStart(MaxFrameSamples)
    \/ \E info \in {ThresholdSample} : MonitoringReply(info)
    \/ MonitoringFails
    \/ handleFlushLogs
    \/ alertsStorage = <<>> /\ \E body \in RuleBodies : handleCreateAlert(body)
    \/ alertsStorage # <<>> /\ \E id \in {NewId(0)} : handleDeleteAlert(id)

SpecFrame == InitFrame /\ [][NextFrame]_vars

\* two handleDelete requests beside the sets that store a key and the store
\* dropping keys on its own
InitDelete == SessionOpen /\ InitData

NextDelete ==
    \/ \E key \in WrittenKeys : SetStart(key, "v")
    \/ SetReply
    \/ \E r \in DeleteReqs, key \in Keys : DeleteStart(r, key)
    \/ \E r \in DeleteReqs : DeleteExists(r)
    \/ \E r \in DeleteReqs : DeleteReply(r)
    \/ \E key \in Keys : KeyGone(key)

SpecDelete == InitDelete /\ [][NextDelete]_vars

\* parseConnectionConfig on every request body of ConnectionData
InitParse ==
    /\ InitSession({})
    /\ \E connectionData \in ConnectionData : InitDataOf([k \in Keys |-> Null], connectionData)

NextParse == Resolve

SpecParse == InitParse /\ [][NextParse]_vars

\* the metrics history on an open session
InitHistory == SessionOpen /\ InitData

NextHistory ==
    \/ MonitoringStart(MaxHistorySamples)
    \/ \E info \in HealthySamples : MonitoringReply(info)
    \/ MonitoringFails
    \/ handleFlushLogs

SpecHistory == InitHistory /\ [][NextHistory]_vars

\* requests for the metrics history beside the samples that fill it
InitPoints == SessionOpen /\ InitData

NextPoints ==
    \/ MonitoringStart(MaxHistorySamples)
    \/ \E info \in HealthySamples : MonitoringReply(info)
    \/ \E points \in PointsInputs : handlePerformanceHistory(points)

SpecPoints == InitPoints /\ [][NextPoints]_vars

\* the system alerts on an open session, with the clock running
InitAlerts == SessionOpen /\ InitData

NextAlerts ==
    \/ MonitoringStart(MaxAlertSamples)
    \/ \E info \in AlertSamples : MonitoringReply(info)
    \/ MonitoringFails
    \/ handleFlushLogs
    \/ ClockAdvance(AlertClockStep, AlertMaxClock)

SpecAlerts == InitAlerts /\ [][NextAlerts]_vars

\* the background sampler beside Connect and Disconnect requests
InitSampler == InitSession({"c1"}) /\ InitData

NextSampler ==
    \/ NextConnect
    \/ SamplerTick
    \/ \E i \in 1..MaxTicks : TickReply(i)
    \/ \E i \in 1..MaxTicks : TickFails(i)
    \/ \E h \in Handles : StoreWork(h)
    \/ ClockAdvance(SamplerClockStep, SamplerMaxClock)

SpecSampler == InitSampler /\ [][NextSampler]_vars

\* handleSwitchDatabase requests on an open session, one after the other
InitSwitch == SessionOpen /\ InitData

NextSwitch ==
    \/ \E database \in DatabaseInputs, ok \in BOOLEAN :
          SwitchDatabaseStart(database, ok)
    \/ SwitchDatabaseReply

SpecSwitch == InitSwitch /\ [][NextSwitch]_vars

\* the database handlers and handleSet on an open session, overlapping at
\* their awaits
InitDatabases == SessionOpen /\ InitData

NextDatabases ==
    \/ \E database \in TourDatabases, ok \in BOOLEAN : SwitchDatabaseStart(database, ok)
    \/ SwitchDatabaseReply
    \/ \E ok \in BOOLEAN : DatabasesInfoStart(ok)
    \/ \E ok \in BOOLEAN : DatabasesInfoStep(ok)
    \/ \E body \in FlushBodies, ok \in BOOLEAN : FlushDatabaseStart(body, ok)
    \/ \E ok \in BOOLEAN : FlushDatabaseStep(ok)
    \/ \E ok \in BOOLEAN : FlushAllDatabasesStart(ok)
    \/ \E ok \in BOOLEAN : FlushAllDatabasesStep(ok)
    \/ Cardinality(dbKeys) < MaxDbKeys /\ DatabaseSetStart
    \/ DatabaseSetReply

SpecDatabases == InitDatabases /\ [][NextDatabases]_vars

\* ------------------------------------------------------------------ claims
\* this step sends the response of request `who`
Answers(who) == response'.who = who

\* C1: at most one handle is live, every live handle is the one in the session
\* slot, and the catch block of a failing Connect never closes a live handle
\* that another Connect created.
C1_SingleLiveSession ==
    /\ \A h \in Handles : Live(handles, h) => client = h
    /\ \A r \in DOMAIN conn : ~conn[r].toreOther

\* C2: when a Connect answers with an error, the session slot is empty, the
\* sampler is stopped and the handle that Connect created is closed.
C2_FailedConnectCleansUp ==
    [][\A r \in DOMAIN conn :
          (Answers(r) /\ response'.result = "error") =>
              /\ client' = NoHandle
              /\ ~monitoringInterval'
              /\ (conn[r].mine # NoHandle => handles'[conn[r].mine] = "closed")]_vars

\* there is no live, ready session in the slot
NoSession == client = NoHandle \/ handles[client] # "ready"

\* C3: a gated request that starts while the slot is empty or holds a handle
\* that is not ready answers NotConnected and awaits no verb; the slot is
\* empty before any client was created and after every Disconnect that
\* answers ok.
C3_GateRejects ==
    [][/\ \A o \in DOMAIN op :
            (op[o].pc = "idle" /\ Answers(o) /\ NoSession) =>
                /\ response'.result = "NotConnected"
                /\ response'.kind \in OpKinds
                /\ op'[o] = OpIdle
       /\ \A o \in DOMAIN op :
            (op[o].pc = "idle" /\ op'[o].pc = "await") => ~NoSession
       /\ (Answers("d") /\ response'.result = "ok") => client' = NoHandle
       /\ nextHandle = 1 => client = NoHandle]_vars

\* a gated request was refused with no session left, after a Disconnect had
\* closed a ready session
C3_Witness ==
    /\ response = [who |-> "o1", kind |-> "handleGetAll", result |-> "NotConnected"]
    /\ disc.closedSession
    /\ client = NoHandle

\* C10: a gated request that goes on after an await issues its next verb on a
\* ready handle: never on a handle that has been disconnected, and never by
\* reading an empty session slot (the TypeError that read throws).
C10_NoVerbOnDeadSession ==
    [][\A o \in DOMAIN op :
          /\ (op[o].pc = "await" /\ op'[o].pc = "await" /\ op'[o] # op[o]) =>
                (client # NoHandle /\ handles[client] # "closed")
          /\ Answers(o) => response'.result # "TypeError"]_vars

\* C4: the pairs handleGetAll collects and returns are never more than the
\* request's limit, and no key name is in two of them, whatever pages the scans
\* return.
C4_AtMostLimitDistinct ==
    /\ Len(getAll.allKeys) <= getAll.limit
    /\ Len(getAll.keyValuePairs) <= getAll.limit
    /\ \A i, j \in 1..Len(getAll.keyValuePairs) :
          i # j => getAll.keyValuePairs[i].key # getAll.keyValuePairs[j].key

\* an answer of exactly `limit` pairs, after pages that repeated keys and held
\* more keys than the limit admits
C4_Witness ==
    /\ getAll.pc = "idle"
    /\ getAll.status = "ok"
    /\ Len(getAll.keyValuePairs) = getAll.limit
    /\ getAll.sawDuplicate
    /\ getAll.sawOverLimit

\* the scan calls of request record rec are within bounds: the call awaited now
\* is one more than the replies counted
ScanWithinBounds(rec) ==
    /\ rec.scanIterations <= maxIterations
    /\ rec.pc = "awaitScan" =>
          /\ rec.scanIterations < maxIterations
          /\ rec.scanIterations > 0 =>
                (rec.cursor # "0" /\ Len(rec.allKeys) < rec.limit)
    /\ (rec.pc = "awaitGet" \/ rec.status = "ok") => rec.scanIterations >= 1

\* C5: a request issues at least one and at most maxIterations scan calls, a
\* further call is awaited only if the last cursor was not "0" and the set is
\* below the limit, and every reply that keeps the loop going counts one more
\* iteration, so the loop ends whatever cursors the store returns.
C5_ScanBounded ==
    [][/\ ScanWithinBounds(getAll')
       /\ (getAll.pc = "awaitScan" /\ getAll'.pc = "awaitScan" /\ getAll' # getAll) =>
             getAll'.scanIterations = getAll.scanIterations + 1]_vars

\* the loop ends at the cap, the cursor never having come back to "0"
C5_Witness ==
    /\ getAll.status = "ok"
    /\ getAll.scanIterations = maxIterations
    /\ getAll.cursor # "0"

\* C6: every pair a batch of gets adds for a key that held a value written by
\* an answered handleSet when the get was sent (and whose get replied) carries
\* exactly that value.
C6_RoundTrip ==
    [][\A j \in 1..Len(getAll.reads) :
          (getAll.pc = "awaitGet"
              /\ Len(getAll'.keyValuePairs) = Len(getAll.keyValuePairs) + Len(getAll.reads)) =>
              LET pair == getAll'.keyValuePairs[Len(getAll.keyValuePairs) + j]
                  read == getAll.reads[j]
              IN  (read.value # Null /\ read.acked /\ pair.value # GetError) =>
                      pair.value = read.value]_vars

\* C7: the history never holds more than maxHistoryPoints samples, holds them
\* in the order they were taken with none missing in between, and a sample is
\* appended after dropping exactly the oldest one of a full history.
C7_HistoryKeepsLatest ==
    [][/\ Len(performanceHistory') <= maxHistoryPoints
       /\ \A i \in 1..(Len(performanceHistory') - 1) :
             performanceHistory'[i + 1].seq = performanceHistory'[i].seq + 1
       /\ nSamples' = nSamples + 1 =>
             /\ performanceHistory' # <<>>
             /\ performanceHistory'[Len(performanceHistory')].seq = nSamples'
             /\ SubSeq(performanceHistory', 1, Len(performanceHistory') - 1) =
                    IF Len(performanceHistory) = maxHistoryPoints
                    THEN Tail(performanceHistory)
                    ELSE performanceHistory]_vars

\* after 101 samples the first is gone and the other 100 are there, in order
C7_Witness ==
    /\ nSamples = maxHistoryPoints + 1
    /\ Len(performanceHistory) = maxHistoryPoints
    /\ performanceHistory[1].seq = 2
    /\ performanceHistory[maxHistoryPoints].seq = maxHistoryPoints + 1

\* C8: the ops/sec rate the sampler retains is never negative.
C8_RateNonNegative == realtimeStats.opsPerSec >= 0

AlertTitles == {"Memory Critical", "High Memory Fragmentation", "Low Cache Hit Ratio"}

OfTitle(alerts, title) == {alerts[i] : i \in {j \in 1..Len(alerts) : alerts[j].title = title}}

\* C9: no two system alerts of one title are less than DuplicateWindow apart,
\* and a sample taken while an alert of some title is younger than
\* DuplicateWindow adds no alert of that title: the alerts of that title are
\* those that were there (less the ones older than AlertMaxAge).
C9_NoDuplicateAlerts ==
    [][/\ \A i, j \in 1..Len(systemAlerts') :
             (i < j /\ systemAlerts'[i].title = systemAlerts'[j].title) =>
                 systemAlerts'[j].timestamp - systemAlerts'[i].timestamp >= DuplicateWindow
       /\ \A title \in AlertTitles :
             (/\ nSamples' = nSamples + 1
              /\ \E a \in OfTitle(systemAlerts, title) : now - a.timestamp < DuplicateWindow) =>
                 OfTitle(systemAlerts', title) =
                     {a \in OfTitle(systemAlerts, title) : now - a.timestamp < AlertMaxAge}]_vars

\* the latest sample had a low hit ratio while a Low Cache Hit Ratio alert was
\* less than DuplicateWindow old: it raised no second one
C9_Witness ==
    /\ performanceHistory # <<>>
    /\ performanceHistory[Len(performanceHistory)].timestamp = now
    /\ performanceHistory[Len(performanceHistory)].hitRatio < 70
    /\ \E a \in OfTitle(systemAlerts, "Low Cache Hit Ratio") :
          a.timestamp < now /\ now - a.timestamp < DuplicateWindow
    /\ Cardinality(OfTitle(systemAlerts, "Low Cache Hit Ratio")) = 1

\* a Disconnect, or the disconnect-before-reconnect step of a Connect, is
\* between its call of client.disconnect() and the return of that call
TeardownInProgress ==
    \/ disc.pc = "awaitDisconnect"
    \/ \E r \in DOMAIN conn : conn[r].pc = "awaitOldDisconnect"

\* C11: while a teardown is in progress no sampler callback sends info('stats')
\* and none stores a rate in realtimeStats; a callback that was awaiting its
\* reply stores nothing once the handle it asked has been disconnected.
C11_NoTickDuringTeardown ==
    [][/\ TeardownInProgress =>
             (Len(ticks') <= Len(ticks) /\ realtimeStats' = realtimeStats)
       /\ realtimeStats' # realtimeStats =>
             \E i \in 1..Len(ticks) : handles[ticks[i]] = "ready"]_vars

\* C12: when a Disconnect answers, ok or error, the session slot is empty and
\* the sampler is stopped; a Disconnect that starts on an empty slot answers ok
\* at once and changes nothing.
C12_DisconnectLeavesNoSession ==
    [][Answers("d") =>
          /\ client' = NoHandle
          /\ ~monitoringInterval'
          /\ client = NoHandle =>
                /\ response'.result = "ok"
                /\ UNCHANGED <<handles, nextHandle, client, monitoringInterval,
                               connectionConfig, currentDatabase, conn, disc, op>>]_vars

\* C13: a Connect whose disconnect of the previous session rejected goes on all
\* the same: with a body parseConnectionConfig accepts it creates its client,
\* puts it in the session slot and awaits the connection.
C13_OldDisconnectFailureSwallowed ==
    [][\A r \in DOMAIN conn :
          (/\ conn[r].pc = "awaitOldDisconnect"
           /\ conn[r].settled = "err"
           /\ conn[r].body.parseOk
           /\ conn'[r] # conn[r]) =>
              /\ conn'[r].pc = "awaitConnect"
              /\ conn'[r].mine = client'
              /\ handles'[client'] = "connecting"]_vars

\* C14: a handleSwitchDatabase whose database is an integer outside 0..15
\* answers the out-of-range error, sends no select and leaves
\* this.currentDatabase alone; for a database in 0..15 it sends select(database)
\* and, when the select succeeds, sets this.currentDatabase to it; when the
\* select fails this.currentDatabase stays as it was.
C14_SwitchDatabaseRange ==
    [][/\ (switchReq.pc = "idle" /\ (switchReq'.pc = "await" \/ Answers("s"))) =>
             IF switchReq'.database \in Databases
             THEN /\ switchReq'.pc = "await"
                  /\ selected' = IF switchReq'.ok THEN switchReq'.database ELSE selected
                  /\ currentDatabase' = currentDatabase
             ELSE /\ switchReq'.pc = "idle"
                  /\ response'.result = "OutOfRange"
                  /\ selected' = selected
                  /\ currentDatabase' = currentDatabase
       /\ switchReq.pc = "await" =>
             IF switchReq.ok
             THEN /\ response'.result = "ok"
                  /\ selected' = switchReq.database
                  /\ currentDatabase' = switchReq.database
             ELSE /\ response'.result = "error"
                  /\ currentDatabase' = currentDatabase]_vars

\* after a switch to database 15 a request for database -1 has been refused,
\* the session still on 15
C14_Witness ==
    /\ response = [who |-> "s", kind |-> "handleSwitchDatabase", result |-> "OutOfRange"]
    /\ switchReq.database = -1
    /\ currentDatabase = 15
    /\ selected = 15

\* C15: whenever no handleDatabasesInfo, handleFlushDatabase or
\* handleFlushAllDatabases request is in progress (and no handleSwitchDatabase
\* is between its select and its assignment), the database selected on the
\* connection is this.currentDatabase.
C15_SelectedIsCurrent ==
    (tour.pc = "idle" /\ switchReq.pc = "idle") => selected = currentDatabase

\* C16: the database a handleSet's write was served in is the one its answer
\* names, this.currentDatabase, also when the request overlaps a handler that
\* is touring the databases.
C16_WriteLandsInCurrent ==
    [][Answers("w") => dbSet.db = currentDatabase]_vars

\* the handleGetAll request has answered 200
GetAllAnswered == getAll.pc = "idle" /\ getAll.status = "ok"

\* C17: the unique-key count of an answer (totalScanned) is the number of
\* distinct key names in all the scan pages the request received, whatever the
\* pages and the limit.
C17_UniqueCountIsDistinctObserved ==
    GetAllAnswered =>
        IF getAll.allKeys = <<>>
        THEN getAll.observed = {}
        ELSE GetAllResponse(getAll).totalScanned = Cardinality(getAll.observed)

\* C18: an answer of a request whose scan loop ended at the cap of
\* maxIterations calls, the cursor not back at "0" and the set below the limit,
\* is a 200 answer that carries a flag saying the result may be incomplete.
C18_CapIsFlagged ==
    (/\ GetAllAnswered
     /\ getAll.scanIterations = maxIterations
     /\ getAll.cursor # "0"
     /\ Len(getAll.allKeys) < getAll.limit) =>
        /\ "limited" \in DOMAIN GetAllResponse(getAll)
        /\ GetAllResponse(getAll).limited

\* the key names of the pairs of an answer
PairKeys(pairs) == {pairs[j].key : j \in 1..Len(pairs)}

\* C19: when the scan has gone round a full cursor cycle (the cursor is back at
\* "0") and the distinct key names it returned are at least one and fewer than
\* the limit, the answer holds exactly one pair for each of them and limited is
\* false; when more distinct key names than the limit match (the pages received
\* hold more than `limit` names, or the loop stopped on a full set before the
\* cycle was complete), the answer holds exactly `limit` pairs and limited is
\* true.
C19_PairsAndLimited ==
    LET n == Cardinality(getAll.observed)
        resp == GetAllResponse(getAll)
    IN  /\ (GetAllAnswered /\ getAll.cursor = "0" /\ n >= 1 /\ n < getAll.limit) =>
              /\ resp.count = n
              /\ Len(resp.data) = n
              /\ PairKeys(resp.data) = getAll.observed
              /\ resp.limited = FALSE
        /\ (/\ GetAllAnswered
            /\ \/ n > getAll.limit
               \/ getAll.cursor # "0" /\ getAll.scanIterations < maxIterations) =>
              /\ resp.count = getAll.limit
              /\ Len(resp.data) = getAll.limit
              /\ Cardinality(PairKeys(resp.data)) = getAll.limit
              /\ resp.limited = TRUE

\* a full cycle of two scan calls that returned one key name, twice, under a
\* limit of 2: one pair, not limited
C19_Witness ==
    /\ GetAllAnswered
    /\ getAll.cursor = "0"
    /\ getAll.scanIterations = 2
    /\ getAll.limit = 2
    /\ getAll.sawDuplicate
    /\ Len(getAll.keyValuePairs) = 1
    /\ ~GetAllResponse(getAll).limited

\* C20: whatever gets of a batch are rejected, the request does not fail: the
\* batch adds one pair per key, in the order of the keys, the pair of a key
\* whose get was rejected carrying the error string and every other pair the
\* value the get returned (the sentinel for a key that is not there), and the
\* answer holds one pair per enumerated key, in enumeration order.
C20_FetchFailuresAreInline ==
    [][(getAll.pc = "awaitGet" /\ getAll' # getAll) =>
          LET batch == Batch(getAll)
              base == Len(getAll.keyValuePairs)
          IN  /\ getAll'.status # "error"
              /\ Len(getAll'.keyValuePairs) = base + Len(batch)
              /\ \A j \in 1..Len(batch) :
                    LET pair == getAll'.keyValuePairs[base + j]
                        fetched == getAll.reads[j].value
                    IN  /\ pair.key = batch[j]
                        /\ pair.value =
                              IF batch[j] \in getAll'.failed THEN GetError
                              ELSE IF fetched = Null THEN "(null)"
                              ELSE fetched
              /\ getAll'.pc = "idle" =>
                    /\ getAll'.status = "ok"
                    /\ [j \in 1..Len(getAll'.keyValuePairs) |->
                            getAll'.keyValuePairs[j].key] = getAll'.allKeys]_vars

\* C21: while the values of one handleGetAll request are fetched, at most 20
\* gets are in flight, and the gets of the next batch are sent only after every
\* get of the awaited batch has settled, fulfilled or rejected.
C21_BatchedFetches ==
    [][/\ Len(getAll'.reads) - getAll'.settled <= 20
       /\ (getAll.pc = "awaitGet" /\ getAll'.pc = "awaitGet" /\ getAll'.i > getAll.i)
            => getAll.settled = Len(getAll.reads)]_vars

\* the third batch of a request for 41 keys is awaited with its one get in
\* flight, after two batches of 20 of which one get was rejected
C21_Witness ==
    /\ getAll.pc = "awaitGet"
    /\ getAll.i = 2 * batchSize
    /\ Len(getAll.keyValuePairs) = 2 * batchSize
    /\ getAll.failed # {}
    /\ Len(getAll.reads) - getAll.settled = 1

\* C23: a latency test asked for n > 0 samples sends exactly min(n, 200) pings
\* when none fails, never more than 200; one ping at a time, the next only
\* after the reply of the one before was recorded; and the first rejected ping
\* ends the request with that error, no further ping being sent.
C23_ProbesCappedAndSequential ==
    /\ latencyTest.probes <= 200
    /\ latencyTest.pc = "await" => latencyTest.probes = latencyTest.i + 1
    /\ (latencyTest.status = "ok" /\ latencyTest.requested > 0) =>
           /\ latencyTest.probes = Min(latencyTest.requested, 200)
           /\ latencyTest.i = latencyTest.probes
    /\ latencyTest.status = "rejected" =>
           /\ latencyTest.pc = "idle"
           /\ latencyTest.probes = latencyTest.i + 1
           /\ latencyTest.probes <= Min(latencyTest.requested, 200)
                  \/ latencyTest.requested <= 0

\* a request for 201 samples was answered after 200 pings
C23_Witness ==
    /\ latencyTest.status = "ok"
    /\ latencyTest.requested = maxTestsCap + 1
    /\ latencyTest.probes = 200

\* C24: the statistics of a latency test are read from the sorted latencies at
\* indexes within 0..N-1, so that min <= median <= p95 <= p99 <= max, and
\* every request, whatever sample count it names, is answered with statistics
\* (no read of an empty list).
C24_StatisticsWellDefined ==
    /\ latencyTest.status # "TypeError"
    /\ latencyTest.status = "ok" =>
          LET n == Len(latencyTest.latencies)
              body == LatencyTestResponse(latencyTest)
          IN  /\ n \in 1..200
              /\ \A percent \in {50, 95, 99} : (n * percent) \div 100 \in 0..(n - 1)
              /\ body.min <= body.median
              /\ body.median <= body.p95
              /\ body.p95 <= body.p99
              /\ body.p99 <= body.max

\* C25: the throughput of an answered latency test is the sample count divided
\* by the elapsed seconds, a finite number, also when the elapsed time
\* measures as 0 ms.
C25_ThroughputFinite ==
    latencyTest.status = "ok" =>
        LET body == LatencyTestResponse(latencyTest)
        IN  /\ body.throughput.finite
            /\ body.totalTime > 0 =>
                  body.throughput.value = (2 * body.samples * 1000 + body.totalTime)
                                             \div (2 * body.totalTime)

\* C22: a handleRealtimeMonitoring request that fails, because an info request
\* rejects or because there is no ready session, stores no sample and raises no
\* alert; and no step of a latency test, failing or not, changes the history,
\* the system alerts or the alert rules.
C22_FailuresLeaveNoTrace ==
    [][/\ (monitoring = "await" /\ monitoring' = "idle" /\ nSamples' = nSamples)
            => UNCHANGED <<performanceHistory, systemAlerts>>
       /\ Replies("handleRealtimeMonitoring")
            => adminReply'.status = 500 /\ UNCHANGED <<performanceHistory, systemAlerts>>
       /\ latencyTest' # latencyTest
            => UNCHANGED <<performanceHistory, systemAlerts, alertsStorage>>]_vars

\* with samples, alerts and a rule stored, a latency test has failed at its
\* first ping while a sample request was awaiting its info replies
C22_Witness ==
    /\ latencyTest.status = "rejected"
    /\ monitoring = "await"
    /\ performanceHistory # <<>>
    /\ systemAlerts # <<>>
    /\ alertsStorage # <<>>

\* C26: whenever handleGetAlerts answers, also when no sample was taken since
\* an alert was raised, the system alerts it returns hold no alert older than
\* 5 minutes.
C26_ListedAlertsAreFresh ==
    [][Replies("handleGetAlerts") =>
          \A i \in 1..Len(GetAlertsResponse.systemAlerts) :
              now - GetAlertsResponse.systemAlerts[i].timestamp <= 5 * 60 * 1000]_vars

\* C30: handleFlushLogs empties the history and the system alerts and changes
\* nothing else: not the alert rules, the session, the current database or the
\* sampler's ops/sec state.  With an empty history, never filled or just
\* cleared, handleSystemHealth on a ready session answers 200 with success,
\* status warning and the one issue that no data is available.
C30_FlushLogsAndNoData ==
    [][/\ handleFlushLogs =>
            /\ performanceHistory' = <<>>
            /\ systemAlerts' = <<>>
            /\ UNCHANGED <<alertsStorage, handles, client, monitoringInterval,
                           connectionConfig, currentDatabase, realtimeStats, store>>
       /\ (Replies("handleSystemHealth") /\ performanceHistory = <<>> /\ ~NoSession) =>
            /\ adminReply'.status = 200
            /\ adminReply'.body.success
            /\ adminReply'.body.health.status = "warning"
            /\ adminReply'.body.health.issues = <<"No performance data available">>]_vars

\* the history and the alerts were filled and then cleared, a rule is stored,
\* and handleSystemHealth has answered the warning
C30_Witness ==
    /\ nSamples > 0
    /\ performanceHistory = <<>>
    /\ systemAlerts = <<>>
    /\ alertsStorage # <<>>
    /\ adminReply.kind = "handleSystemHealth"
    /\ adminReply.status = 200
    /\ adminReply.body.health.status = "warning"

\* the condition of the sample that the alert of a title stands for
Crosses(data, title) ==
    CASE title = "Memory Critical" ->
             data.maxMemory > 0 /\ data.usedMemory * 100 > 90 * data.maxMemory
      [] title = "High Memory Fragmentation" -> data.memFragmentationRatio > 200
      [] title = "Low Cache Hit Ratio" -> data.hitRatio < 70

\* C27: a sample raises a system alert for exactly the conditions it crosses,
\* unless an alert of the same title was raised in the last 60 s: memory
\* critical iff a limit is set and used/limit > 90%, fragmentation iff the
\* ratio > 2.0, low hit ratio iff the ratio < 70; no other alert is added.
C27_AlertsForCrossedConditions ==
    [][nSamples' = nSamples + 1 =>
          LET data == performanceHistory'[Len(performanceHistory')]
              Old(alert) == \E i \in 1..Len(systemAlerts) : systemAlerts[i] = alert
              Raised(title) ==
                  \E i \in 1..Len(systemAlerts') :
                      /\ systemAlerts'[i].title = title
                      /\ systemAlerts'[i].timestamp = now
                      /\ ~Old(systemAlerts'[i])
              Suppressed(title) ==
                  \E i \in 1..Len(systemAlerts) :
                      /\ systemAlerts[i].title = title
                      /\ now - systemAlerts[i].timestamp < 60000
          IN  /\ \A title \in AlertTitles :
                    Raised(title) <=> (Crosses(data, title) /\ ~Suppressed(title))
              /\ \A i \in 1..Len(systemAlerts') :
                    Old(systemAlerts'[i]) \/ systemAlerts'[i].title \in AlertTitles]_vars

\* a sample on the thresholds was taken after one that raised alerts more than
\* a minute before, and the alerts are those of the earlier sample
C27_Witness ==
    /\ Len(performanceHistory) = 2
    /\ performanceHistory[2].memFragmentationRatio = 200
    /\ performanceHistory[2].hitRatio = 70
    /\ performanceHistory[1].memFragmentationRatio = 250
    /\ performanceHistory[2].timestamp - performanceHistory[1].timestamp > 60000
    /\ Len(systemAlerts) = 2

\* C29: handleDeleteAlert with an id no stored rule has answers 404 and leaves
\* the rules as they are; with an id a rule has it removes that rule and no
\* other, so that deleting the id the latest create returned gives back the
\* rules as they were before that create.
C29_DeleteRemovesThatRule ==
    [][Replies("handleDeleteAlert") =>
          LET id == adminReply'.body.id
              n == Len(alertsStorage)
              Matches == {i \in 1..n : alertsStorage[i].id = id}
          IN  IF Matches = {}
              THEN adminReply'.status = 404 /\ alertsStorage' = alertsStorage
              ELSE /\ adminReply'.status = 200
                   /\ \E i \in Matches : alertsStorage' = Without(alertsStorage, i)
                   /\ alertsStorage[n].id = id =>
                         alertsStorage' = SubSeq(alertsStorage, 1, n - 1)]_vars

\* C28: the alert rules change only in a step of handleCreateAlert or
\* handleDeleteAlert: samples, the sampler callback, flush-logs, Connect and
\* Disconnect leave the rules and every field of every rule as they are.
C28_RulesChangeOnlyByCreateAndDelete ==
    [][alertsStorage' # alertsStorage =>
          \/ Replies("handleCreateAlert")
          \/ Replies("handleDeleteAlert")]_vars

\* a rule is still stored after a Connect, a sample, a flush-logs and a
\* Disconnect, with a sampler callback yet to be answered
C28_Witness ==
    /\ alertsStorage # <<>>
    /\ nextHandle > 1
    /\ client = NoHandle
    /\ nSamples = 1
    /\ performanceHistory = <<>>
    /\ ticks # <<>>

\* C40: the limited flag of an answer is true only when the limit cut the
\* result: when the scan has gone round a full cursor cycle (the cursor is back
\* at "0") and the distinct key names it returned are exactly `limit`, the
\* answer holds one pair for each of them and limited is false.
C40_LimitedOnlyWhenTruncated ==
    (/\ GetAllAnswered
     /\ getAll.cursor = "0"
     /\ Cardinality(getAll.observed) = getAll.limit) =>
        /\ PairKeys(GetAllResponse(getAll).data) = getAll.observed
        /\ GetAllResponse(getAll).limited = FALSE

\* C39: a sample raises the low-hit-ratio alert only if it recorded at least
\* one lookup (hits + misses > 0) and hits / (hits + misses) is below 70%; a
\* sample with zero hits and zero misses raises no low-hit-ratio alert.
C39_LowHitRatioNeedsLookups ==
    [][nSamples' = nSamples + 1 =>
          LET data == performanceHistory'[Len(performanceHistory')]
              total == data.keyspaceHits + data.keyspaceMisses
              Old(alert) == \E i \in 1..Len(systemAlerts) : systemAlerts[i] = alert
              Raised ==
                  \E i \in 1..Len(systemAlerts') :
                      /\ systemAlerts'[i].title = "Low Cache Hit Ratio"
                      /\ systemAlerts'[i].timestamp = now
                      /\ ~Old(systemAlerts'[i])
          IN  Raised => (total > 0 /\ data.keyspaceHits * 100 < 70 * total)]_vars

\* C38: every stored alert rule has an id no other stored rule has, and every
\* system alert has an id no other system alert in the list has, whatever
\* creates and samples ran and however many of them within one clock reading.
C38_IdsAreDistinct ==
    /\ \A i, j \in 1..Len(alertsStorage) :
           i # j => alertsStorage[i].id # alertsStorage[j].id
    /\ \A i, j \in 1..Len(systemAlerts) :
           i # j => systemAlerts[i].id # systemAlerts[j].id

\* C35: the status handleSystemHealth answers is the most severe among the
\* issues it found in the latest sample: it is healthy iff the list of issues
\* is empty, and it is critical whenever used memory is over 90% of the memory
\* limit, whatever other checks (fragmentation, hit ratio, more than 1000
\* connected clients) fire on the same sample.
C35_StatusIsMostSevere ==
    [][(Replies("handleSystemHealth") /\ adminReply'.status = 200) =>
          LET health == adminReply'.body.health
              latest == performanceHistory[Len(performanceHistory)]
          IN  /\ health.status = "healthy" <=> health.issues = <<>>
              /\ (/\ performanceHistory # <<>>
                  /\ latest.maxMemory > 0
                  /\ latest.usedMemory * 100 > 90 * latest.maxMemory) =>
                     health.status = "critical"]_vars

\* C36: for every integer count >= 0, handlePerformanceHistory answers at most
\* `count` samples, and they are the latest min(count, 100, history size)
\* samples in the order they were appended; a count of 0 answers no samples.
C36_LatestCountSamples ==
    [][\A points \in PointsInputs :
          (handlePerformanceHistory(points) /\ points >= 0) =>
              LET history == PerformanceHistoryResponse(points).history
                  size == Len(performanceHistory)
                  n == Min(points, Min(maxHistoryPoints, size))
              IN  /\ Len(history) <= points
                  /\ history = SubSeq(performanceHistory, size - n + 1, size)]_vars

\* C37: a handleDelete request answers success only if its own del removed the
\* key, and not-found otherwise, whatever removed the key between its exists
\* and its del: two requests in flight together for one stored key never both
\* answer that they deleted it.
C37_SuccessMeansOwnDelete ==
    \A r \in DeleteReqs :
        (delReq[r].pc = "idle" /\ delReq[r].status # 0) =>
            /\ delReq[r].status = 200 <=> delReq[r].deletedCount = 1
            /\ delReq[r].status # 200 => delReq[r].status = 404

\* the call has returned a descriptor for a connection string that parsed
Resolved ==
    /\ resolver.returned # <<>>
    /\ resolver.connectionData.connectionString.kind = "url"
    /\ ~resolver.returned[1].threw

\* C31: the descriptor of a connection string of scheme rediss has tls set and
\* rejectUnauthorized false; the descriptor of a connection string of scheme
\* redis has no tls.
C31_TlsFollowsScheme ==
    Resolved =>
        LET scheme == resolver.connectionData.connectionString.scheme
            socket == resolver.returned[1].config.socket
        IN  /\ scheme = "rediss" =>
                   /\ socket.tls # Undefined
                   /\ socket.rejectUnauthorized = FALSE
            /\ scheme = "redis" => socket.tls = Undefined

\* a rediss connection string to a host of the managed domain was resolved
C31_Witness ==
    /\ Resolved
    /\ resolver.connectionData.connectionString.scheme = "rediss"
    /\ resolver.connectionData.connectionString.hostname = RailwayHost
    /\ resolver.returned[1].config.socket.tls = EmptyObject

\* C32: whenever the host of the descriptor is of the managed domain (it
\* includes rlwy.net), be it the host of the connection string or the host
\* field of a body without a connection string, or the body's connectionType
\* is railway, the descriptor's socket has family 4, lazyConnect, keepAlive
\* and a connectTimeout of 10 s.
C32_RailwaySettingsApplied ==
    (resolver.returned # <<>> /\ ~resolver.returned[1].threw) =>
        LET socket == resolver.returned[1].config.socket
        IN  (\/ resolver.connectionData.connectionType = "railway"
             \/ IncludesRlwyNet(socket.host)) =>
                /\ {"family", "lazyConnect", "keepAlive", "connectTimeout"}
                       \subseteq DOMAIN socket
                /\ socket.family = 4
                /\ socket.lazyConnect
                /\ socket.keepAlive
                /\ socket.connectTimeout = 10000

\* C33: the database of the descriptor of a connection string whose path
\* segment spells a number n in 0..15 is n, also for n = 0 beside a database
\* field of another value; the database field is taken only when the segment
\* is absent or spells no number, and 0 only when there is no field either.
C33_PathSegmentIsTheDatabase ==
    Resolved =>
        LET segment == resolver.connectionData.connectionString.segment
            field == resolver.connectionData.database
            database == resolver.returned[1].config.database
        IN  IF \E n \in 0..15 : ToString(n) = segment
            THEN \E n \in 0..15 : ToString(n) = segment /\ database = n
            ELSE IF field # <<>>
            THEN database = field[1]
            ELSE database = 0

\* C34: every handleConnect request that has started answers in the end, ok
\* or error, also when the store never answers: neither the disconnect of the
\* previous session, nor the connect raced against the 15 s timer, nor the
\* ping, nor the select leaves it pending for ever.
C34_ConnectAlwaysAnswers ==
    \A r \in ConnReqs : (conn[r].pc # "idle") ~> (conn[r].pc = "idle")

====
